---- MODULE Spec2Model ----
(***************************************************************************)
(* A model of the bespokewm window manager: the Slab arena (src/slab.rs),  *)
(* the Screen controller (src/screen.rs), the Workspace lists              *)
(* (src/layout.rs) and the EWMH property mirror (src/ewmh.rs,              *)
(* src/atoms.rs).                                                          *)
(*                                                                         *)
(* Rust indices are 0-based; TLA+ sequences are 1-based, so the element    *)
(* with Rust index i of a Vec is element i + 1 of the sequence.            *)
(* A panic sets `fault`; a faulted process takes no further step.          *)
(***************************************************************************)
EXTENDS Integers, Sequences, FiniteSets, TLC

VARIABLES
    slab,        \* a Slab<T> under test on its own: [entries, last_free]
    handles,     \* history: the (idx, v) pairs returned by push and not removed since
    vacated,     \* history: indices vacated by remove and not returned by push since
    slab_call,   \* the last call made on `slab` and what it returned
    fault,       \* TRUE once a panic has happened
    screen,      \* the Screen, its Context, and the X server state it has written
    call,        \* the last Screen handler run, its arguments and its result
    build,       \* "debug": integer overflow panics; "release": it wraps;
                 \* "any": no overflow has happened yet
    budget,      \* the number of handler calls left in the run
    focus_removed, \* history: the client whose handle is recorded as focused was
                 \* removed after the handle was recorded
    closing,     \* history: the clients that were sent WM_DELETE_WINDOW and are
                 \* awaiting their DestroyNotify
    hash_seed,   \* the order in which the HashMap window_lookup iterates its
                 \* keys: "asc", "desc", or "any" while it has made no difference
    failures,    \* how many requests the X server has rejected so far
    layout_ops,  \* how many layout changes have been made so far
    wm,          \* Wm::run: the reactor thread, the event-reading helper thread,
                 \* the channel between them and the X server's event queue
    tiling,      \* a Layout under test on its own: the last retile call and
                 \* the geometry it gave to every handle
    workspace,   \* a Workspace under test on its own, with its clients
    keyboard     \* a Keyboard under test on its own, with the keys held down

slabVars == <<slab, handles, vacated, slab_call>>

screenVars == <<screen, call, build, hash_seed, failures, layout_ops, budget,
                focus_removed, closing>>

partVars == <<wm, tiling, workspace, keyboard>>

vars == <<slab, handles, vacated, slab_call, fault, screen, call, build, hash_seed,
          failures, layout_ops, budget, focus_removed, closing, wm, tiling,
          workspace, keyboard>>

----------------------------------------------------------------------------
(* Bounds *)

MaxSlabLen == 3      \* pushes that would grow `entries` beyond this are not made
MaxValue == 2        \* values stored in the slab under test are 1..MaxValue

SlabValues == 1..MaxValue
SlabIndices == 0..MaxSlabLen     \* includes one index that is always out of range

----------------------------------------------------------------------------
(* Option<T> *)

None == <<>>
Some(v) == <<v>>
IsSome(o) == o # None
Unwrap(o) == o[1]

----------------------------------------------------------------------------
(* Slab<T>, src/slab.rs *)

Slab_new == [entries |-> <<>>, last_free |-> 0]

\* The scan of push, `for i in self.last_free..=self.entries.len()`: the
\* first vacant index from i on, or -1 when the scan indexes entries[len]
\* (index out of bounds, a panic).  The range is inclusive, so the scan never
\* runs off its end without indexing entries[len].
RECURSIVE PushScan(_, _)
PushScan(entries, i) ==
    IF i >= Len(entries) THEN -1
    ELSE IF entries[i + 1] = None THEN i
    ELSE PushScan(entries, i + 1)

\* A push that reuses the slot at last_free and forgets to move last_free on.
Slab_push_stuck(s, value) ==
    IF s.last_free < Len(s.entries)
    THEN [slab |-> [s EXCEPT !.entries[s.last_free + 1] = Some(value)],
          idx |-> s.last_free, panic |-> FALSE]
    ELSE [slab |-> [entries |-> Append(s.entries, Some(value)),
                    last_free |-> Len(s.entries) + 1],
          idx |-> Len(s.entries), panic |-> FALSE]

\* Slab::push: the slab afterwards, the index returned, and whether it panicked.
Slab_push(s, value) ==
    IF s.last_free < Len(s.entries)
    THEN LET stored == [s.entries EXCEPT ![s.last_free + 1] = Some(value)]
             idx == s.last_free
             next == s.last_free + 1
         IN  IF next >= Len(stored)
             THEN [slab |-> [entries |-> stored, last_free |-> next],
                   idx |-> idx, panic |-> FALSE]
             ELSE LET found == PushScan(stored, next)
                  IN  IF found = -1
                      THEN [slab |-> [entries |-> stored, last_free |-> next],
                            idx |-> idx, panic |-> TRUE]
                      ELSE [slab |-> [entries |-> stored, last_free |-> found],
                            idx |-> idx, panic |-> FALSE]
    ELSE [slab |-> [entries |-> Append(s.entries, Some(value)),
                    last_free |-> Len(s.entries) + 1],
          idx |-> Len(s.entries), panic |-> FALSE]

\* A remove that reads the slot without taking the value out of it.
Slab_remove_peek(s, index) ==
    IF index >= Len(s.entries)
    THEN [slab |-> s, value |-> None, panic |-> TRUE]
    ELSE [slab |-> [s EXCEPT !.last_free = IF s.last_free > index THEN index ELSE @],
          value |-> s.entries[index + 1], panic |-> FALSE]

\* Slab::remove: `self.entries[index]` panics when index is out of bounds.
Slab_remove(s, index) ==
    IF index >= Len(s.entries)
    THEN [slab |-> s, value |-> None, panic |-> TRUE]
    ELSE [slab |-> [entries |-> [s.entries EXCEPT ![index + 1] = None],
                    last_free |-> IF s.last_free > index THEN index ELSE s.last_free],
          value |-> s.entries[index + 1], panic |-> FALSE]

\* Slab::get / Slab::get_mut
Slab_get(s, idx) ==
    IF idx < Len(s.entries) THEN s.entries[idx + 1] ELSE None

\* impl Index / IndexMut for Slab: the value, or a panic.
Slab_index(s, index) ==
    IF index >= Len(s.entries) THEN [value |-> None, panic |-> TRUE]
    ELSE IF IsSome(s.entries[index + 1])
         THEN [value |-> s.entries[index + 1], panic |-> FALSE]
         ELSE [value |-> None, panic |-> TRUE]

\* An iterator that stops at the first vacant slot instead of skipping it.
RECURSIVE SlabIter_stop(_, _)
SlabIter_stop(entries, i) ==
    IF i >= Len(entries) THEN <<>>
    ELSE IF IsSome(entries[i + 1])
         THEN <<Unwrap(entries[i + 1])>> \o SlabIter_stop(entries, i + 1)
         ELSE <<>>

\* SlabIter::next / SlabIterMut::next, run to exhaustion from position i:
\* the values yielded, in the order they are yielded.
RECURSIVE SlabIter(_, _)
SlabIter(entries, i) ==
    IF i >= Len(entries) THEN <<>>
    ELSE IF IsSome(entries[i + 1])
         THEN <<Unwrap(entries[i + 1])>> \o SlabIter(entries, i + 1)
         ELSE SlabIter(entries, i + 1)

\* Slab::iter / Slab::iter_mut
Slab_iter(s) == SlabIter(s.entries, 0)

\* Slab::len
Slab_len(s) == Cardinality({i \in 1..Len(s.entries) : IsSome(s.entries[i])})

\* Slab::max_len
Slab_max_len(s) == Len(s.entries)

\* Slab::clear.  Only `entries` is cleared; last_free keeps its value.
Slab_clear(s) == [s EXCEPT !.entries = <<>>]

----------------------------------------------------------------------------
(* The Slab on its own: any sequence of calls *)

InitSlab ==
    /\ slab = Slab_new
    /\ handles = {}
    /\ vacated = {}
    /\ slab_call = [op |-> "new"]
    /\ fault = FALSE
    /\ screen = <<>>
    /\ call = [op |-> "none"]
    /\ build = "any"
    /\ hash_seed = "any"
    /\ failures = 0
    /\ layout_ops = 0
    /\ budget = 0
    /\ focus_removed = FALSE
    /\ closing = {}
    /\ wm = <<>>
    /\ tiling = <<>>
    /\ workspace = <<>>
    /\ keyboard = <<>>

SlabPush(v) ==
    /\ ~fault
    /\ \/ slab.last_free < Len(slab.entries)
       \/ Len(slab.entries) < MaxSlabLen
    /\ LET r == Slab_push(slab, v)
       IN  /\ slab' = r.slab
           /\ fault' = r.panic
           /\ slab_call' = [op |-> "push", before |-> slab, v |-> v,
                            idx |-> r.idx, panic |-> r.panic]
           /\ handles' = IF r.panic THEN handles
                         ELSE handles \cup {[idx |-> r.idx, v |-> v]}
           /\ vacated' = IF r.panic THEN vacated ELSE vacated \ {r.idx}
    /\ UNCHANGED <<screenVars, partVars>>

SlabRemove(idx) ==
    /\ ~fault
    /\ LET r == Slab_remove(slab, idx)
       IN  /\ slab' = r.slab
           /\ fault' = r.panic
           /\ slab_call' = [op |-> "remove", before |-> slab, idx |-> idx,
                            value |-> r.value, panic |-> r.panic]
           /\ handles' = IF r.panic THEN handles
                         ELSE {h \in handles : h.idx # idx}
           /\ vacated' = IF r.panic \/ r.value = None THEN vacated
                         ELSE vacated \cup {idx}
    /\ UNCHANGED <<screenVars, partVars>>

SlabGet(idx) ==
    /\ ~fault
    /\ slab_call' = [op |-> "get", before |-> slab, idx |-> idx,
                     value |-> Slab_get(slab, idx), panic |-> FALSE]
    /\ UNCHANGED <<slab, handles, vacated, fault, screenVars, partVars>>

SlabIndex(idx) ==
    /\ ~fault
    /\ LET r == Slab_index(slab, idx)
       IN  /\ slab_call' = [op |-> "index", before |-> slab, idx |-> idx,
                            value |-> r.value, panic |-> r.panic]
           /\ fault' = r.panic
    /\ UNCHANGED <<slab, handles, vacated, screenVars, partVars>>

SlabIterate ==
    /\ ~fault
    /\ slab_call' = [op |-> "iter", before |-> slab, items |-> Slab_iter(slab),
                     len |-> Slab_len(slab), panic |-> FALSE]
    /\ UNCHANGED <<slab, handles, vacated, fault, screenVars, partVars>>

NextSlab ==
    \/ \E v \in SlabValues : SlabPush(v)
    \/ \E idx \in SlabIndices : SlabRemove(idx)
    \/ \E idx \in SlabIndices : SlabGet(idx)
    \/ \E idx \in SlabIndices : SlabIndex(idx)
    \/ SlabIterate

SpecSlab == InitSlab /\ [][NextSlab]_vars

----------------------------------------------------------------------------
(* Integers of the program: u16 counters and sizes, u32 property values *)

U16 == 65536

\* The value a u16 expression with mathematical value x has when it wraps.
Wrap16(x) == ((x % U16) + U16) % U16

\* x is not representable as a u16: the operation panics in a build with
\* overflow checks and wraps in a build without.
Overflows16(x) == x < 0 \/ x >= U16

----------------------------------------------------------------------------
(* Window ids *)

MaxWindows == 2     \* third-party windows have ids 1..MaxWindows
MaxFrames == 2      \* at most this many frame ids are ever generated

Root == 0
Children == 1..MaxWindows
Frame(k) == MaxWindows + k
Frames == {Frame(k) : k \in 1..MaxFrames}
XWindows == {Root} \cup Children \cup Frames

----------------------------------------------------------------------------
(* Atoms, src/atoms.rs: the name each field of Atoms is interned from *)

Atoms == [
    wm_protocols             |-> "WM_PROTOCOLS",
    wm_delete_window         |-> "WM_DELETE_WINDOW",
    net_wm_name              |-> "_NET_WM_NAME",
    net_wm_state             |-> "_NET_WM_STATE",
    net_wm_state_focused     |-> "_NET_WM_STATE_FOCUSED",
    net_wm_window_type       |-> "_NET_SUPPORTING_WM_CHECK",
    net_current_desktop      |-> "_NET_WM_WINDOW_TYPE",
    net_number_of_desktops   |-> "_NET_CURRENT_DESKTOP",
    net_wm_desktop           |-> "_NET_NUMBER_OF_DESKTOPS",
    net_supported            |-> "_NET_DESKTOP_VIEWPORT",
    net_wm_strut_partial     |-> "_NET_WM_DESKTOP",
    net_desktop_viewport     |-> "_NET_SUPPORTED",
    net_desktop_names        |-> "_NET_WM_STRUT_PARTIAL",
    net_active_window        |-> "_NET_DESKTOP_NAMES",
    net_supporting_wm_check  |-> "_NET_ACTIVE_WINDOW",
    net_client_list          |-> "_NET_CLIENT_LIST",
    net_client_list_stacking |-> "_NET_SHOWING_DESKTOP",
    net_showing_desktop      |-> "_NET_CLIENT_LIST_STACKING" ]

\* Screen::add_window reads `atoms.net_wm_strut`, a field the Atoms table of
\* src/atoms.rs does not declare; it is taken to be interned from its own name.
Atoms_net_wm_strut == "_NET_WM_STRUT"

----------------------------------------------------------------------------
(* The state the handlers work on.                                         *)
(*                                                                         *)
(* A handler is an operator from a state record to a state record.  The    *)
(* record holds the fields of Screen and of its Context, and beside them   *)
(*   props   the properties the requests have written on the X server,     *)
(*           keyed by <<window, property name>>;                           *)
(*   reqs    the requests this handler has sent, in order;                 *)
(*   oracle  the outcomes the X server will give the checked requests of   *)
(*           this handler, in the order the handler waits for them;        *)
(*   err     TRUE when the call just made returned Err;                    *)
(*   ret     the boolean the call just made returned;                      *)
(*   checks  TRUE when the build panics on integer overflow, FALSE when    *)
(*           it wraps; overflowed records that the difference has shown;   *)
(*   seed    the iteration order of window_lookup; hashed records that     *)
(*           the order has shown;                                          *)
(*   panic   TRUE when the handler has panicked: every later step of it    *)
(*           is skipped.                                                   *)
(***************************************************************************)

NumWorkspaces == 10

Layouts == <<"Grid", "MasterLeft", "MasterRight", "MasterLeftGrid",
             "MasterRightGrid", "Monocle">>

Position_new(x, y, width, height) ==
    [x |-> x, y |-> y, width |-> width, height |-> height]

\* Rust evaluates `let x = v;` once and then uses the value: F is applied to
\* the value of v.
Bind(v, F(_)) == CHOOSE r \in {F(x) : x \in {v}} : TRUE

Panic(s) == [s EXCEPT !.panic = TRUE]

Req(kind, window) == [req |-> kind, window |-> window]

Send(s, r) == [s EXCEPT !.reqs = Append(@, r)]

\* Takes the next outcome off the oracle; 0 (the request succeeds) when the
\* oracle is used up.
Outcome(s) == IF Len(s.oracle) = 0 THEN 0 ELSE Head(s.oracle)
Consume(s) == [s EXCEPT !.oracle = IF Len(@) = 0 THEN @ ELSE Tail(@)]

\* `self.context.windows[idx]`
ClientAt(s, idx) == Unwrap(Slab_index(s.windows, idx).value)
ClientVacant(s, idx) == Slab_index(s.windows, idx).panic

SetClient(s, idx, c) == [s EXCEPT !.windows.entries[idx + 1] = Some(c)]

----------------------------------------------------------------------------
(* Client, src/screen.rs.  Of the fields of Client the model keeps window, *)
(* frame, visible and workspace; name, width, height, x and y are written  *)
(* once by Client::new and never again.                                    *)

\* Client::show on `ctx.windows[idx]`
Client_show(state, idx) ==
    Bind(state, LAMBDA s :
        IF s.panic THEN s
        ELSE IF ClientVacant(s, idx) THEN Panic(s)
        ELSE LET c == ClientAt(s, idx)
             IN  Send(Send(SetClient(s, idx, [c EXCEPT !.visible = TRUE]),
                           Req("MapWindow", c.frame)),
                      Req("MapWindow", c.window)))

\* Client::hide on `ctx.windows[idx]`
Client_hide(state, idx) ==
    Bind(state, LAMBDA s :
        IF s.panic THEN s
        ELSE IF ClientVacant(s, idx) THEN Panic(s)
        ELSE LET c == ClientAt(s, idx)
             IN  Send(Send(SetClient(s, idx, [c EXCEPT !.visible = FALSE]),
                           Req("UnmapWindow", c.window)),
                      Req("UnmapWindow", c.frame)))

\* Client::destroy on `ctx.windows[idx]`
Client_destroy(state, idx) ==
    Bind(state, LAMBDA s :
        IF s.panic THEN s
        ELSE IF ClientVacant(s, idx) THEN Panic(s)
        ELSE Send(s, Req("DestroyWindow", ClientAt(s, idx).frame)))

\* Client::focus on `ctx.windows[idx]`
Client_focus(state, idx) ==
    Bind(state, LAMBDA s :
        IF s.panic THEN s
        ELSE IF ClientVacant(s, idx) THEN Panic(s)
        ELSE Send(s, Req("SetInputFocus", ClientAt(s, idx).window)))

RECURSIVE ShowAll(_, _)
ShowAll(state, list) ==
    IF Len(list) = 0 THEN state
    ELSE ShowAll(Client_show(state, Head(list)), Tail(list))

RECURSIVE HideAll(_, _)
HideAll(state, list) ==
    IF Len(list) = 0 THEN state
    ELSE HideAll(Client_hide(state, Head(list)), Tail(list))

----------------------------------------------------------------------------
(* Workspace, src/layout.rs, holding slab indices as its window handles    *)

Workspace_new(pos, gap, id) ==
    [windows |-> <<>>, floating_windows |-> <<>>, focused |-> None,
     pos |-> pos, gap |-> gap, layout |-> "Grid", is_showing |-> FALSE, id |-> id]

\* Workspace::name: `format!("Desktop {id}")`; the id is kept in place of its
\* decimal digits.
Workspace_name(ws) == <<"Desktop", ws.id>>

\* Workspace::windows: tiled handles, then floating ones.
Workspace_windows(ws) == ws.windows \o ws.floating_windows

\* Layout::retile, src/tiling.rs: every layout indexes the client slab with
\* every handle of the list, which panics on a vacant slot.  The geometry it
\* computes and sends is server state that no handler reads back; the model
\* leaves it, and the arithmetic that computes it, out.
Layout_retile(state, list) ==
    Bind(state, LAMBDA s :
        IF s.panic THEN s
        ELSE IF \E k \in 1..Len(list) : ClientVacant(s, list[k]) THEN Panic(s)
        ELSE s)

\* Workspace::retile
Workspace_retile(state, i) ==
    Bind(state, LAMBDA s :
        IF s.panic THEN s
        ELSE IF Len(s.workspaces[i].windows) > 0 /\ s.workspaces[i].is_showing
             THEN Layout_retile(s, s.workspaces[i].windows)
             ELSE s)

\* Workspace::show on `self.workspaces[i]`
Workspace_show(state, i) ==
    Bind(state, LAMBDA s :
        IF s.panic THEN s
        ELSE IF i >= NumWorkspaces THEN Panic(s)
        ELSE Bind(Workspace_retile(
                      ShowAll([s EXCEPT !.workspaces[i].is_showing = TRUE],
                              s.workspaces[i].windows), i),
                  LAMBDA s3 : ShowAll(s3, s3.workspaces[i].windows)))

\* Workspace::unfocus_all
Workspace_unfocus_all(state, i) ==
    Bind(state, LAMBDA s :
        IF s.panic THEN s
        ELSE [s EXCEPT !.workspaces[i].focused = None])

\* Workspace::hide on `self.workspaces[i]`
Workspace_hide(state, i) ==
    Bind(state, LAMBDA s :
        IF s.panic THEN s
        ELSE IF i >= NumWorkspaces THEN Panic(s)
        ELSE Bind(HideAll(Workspace_unfocus_all(
                              [s EXCEPT !.workspaces[i].is_showing = FALSE], i),
                          s.workspaces[i].windows),
                  LAMBDA s3 : HideAll(s3, s3.workspaces[i].floating_windows)))

\* Workspace::cycle_layout
Workspace_cycle_layout(state, i) ==
    Bind(state, LAMBDA s :
        IF s.panic THEN s
        ELSE LET cur == s.workspaces[i].layout
                 pos == CHOOSE k \in 1..Len(Layouts) : Layouts[k] = cur
                 nxt == Layouts[(pos % Len(Layouts)) + 1]
             IN  Workspace_retile([s EXCEPT !.workspaces[i].layout = nxt], i))

\* Workspace::set_layout
Workspace_set_layout(state, i, new_layout) ==
    Bind(state, LAMBDA s :
        IF s.panic THEN s
        ELSE IF s.workspaces[i].layout = new_layout THEN s
        ELSE Workspace_retile([s EXCEPT !.workspaces[i].layout = new_layout], i))

\* Workspace::spawn_window
Workspace_spawn_window(state, i, idx) ==
    Bind(Client_show(state, idx), LAMBDA s1 :
        IF s1.panic THEN s1
        ELSE Workspace_retile(
                 [s1 EXCEPT !.workspaces[i].windows = Append(@, idx)], i))

\* Workspace::unfocus with the predicate "is the handle idx"
Workspace_unfocus(state, i, idx) ==
    Bind(state, LAMBDA s :
        IF s.panic THEN s
        ELSE IF s.workspaces[i].focused = Some(idx)
             THEN [s EXCEPT !.workspaces[i].focused = None]
             ELSE s)

\* The handles of a list that are not idx, in their order.
Without(list, idx) == SelectSeq(list, LAMBDA h : h # idx)

\* The destroy call Workspace::remove_window makes for each handle it removes.
RECURSIVE DestroyEach(_, _, _)
DestroyEach(state, idx, n) ==
    IF n = 0 THEN state ELSE DestroyEach(Client_destroy(state, idx), idx, n - 1)

\* Workspace::remove_window with the predicate "is the handle idx"
Workspace_remove_window(state, i, idx) ==
    Bind(Workspace_unfocus(state, i, idx), LAMBDA s1 :
        IF s1.panic THEN s1
        ELSE LET ws == s1.workspaces[i]
                 removed == (Len(ws.windows) - Len(Without(ws.windows, idx)))
                            + (Len(ws.floating_windows)
                               - Len(Without(ws.floating_windows, idx)))
             IN  Bind(DestroyEach(s1, idx, removed), LAMBDA s2 :
                     IF s2.panic THEN s2
                     ELSE Bind([s2 EXCEPT
                                   !.workspaces[i].windows = Without(@, idx),
                                   !.workspaces[i].floating_windows = Without(@, idx)],
                               LAMBDA s3 :
                                   IF removed > 0 THEN Workspace_retile(s3, i)
                                   ELSE s3)))

\* Workspace::set_screen_position
Workspace_set_screen_position(state, i, pos) ==
    Bind(state, LAMBDA s :
        IF s.panic THEN s
        ELSE Workspace_retile([s EXCEPT !.workspaces[i].pos = pos], i))

\* Workspace::clear_windows
Workspace_clear_windows(ws) ==
    [ws EXCEPT !.windows = <<>>, !.floating_windows = <<>>, !.focused = None]

\* Whether a handle is one of the workspace's windows: the result of the
\* focus_client that Screen::enter_client calls.
Workspace_has_client(ws, idx) ==
    \E k \in 1..Len(Workspace_windows(ws)) : Workspace_windows(ws)[k] = idx

\* Workspace::focus_client
Workspace_focus_client(state, i, idx) ==
    Bind(state, LAMBDA s :
        IF s.panic THEN s
        ELSE Client_focus([s EXCEPT !.workspaces[i].focused = Some(idx)], idx))

----------------------------------------------------------------------------
(* The EWMH property mirror: Screen::update_atoms and src/ewmh.rs *)

\* change_property!: one checked ChangeProperty request, the k-th of
\* update_atoms.  When the server rejects it (fp = k) the call returns Err and
\* the property keeps its old value.
ChangeProperty(state, fp, k, window, property, data) ==
    Bind(state, LAMBDA s :
        IF s.panic \/ s.err THEN s
        ELSE IF fp = k
             THEN [s EXCEPT !.reqs = Append(@, [req |-> "ChangeProperty",
                                                window |-> window,
                                                property |-> property,
                                                data |-> data, ok |-> FALSE]),
                            !.err = TRUE, !.rejected = TRUE]
             ELSE [s EXCEPT !.reqs = Append(@, [req |-> "ChangeProperty",
                                                window |-> window,
                                                property |-> property,
                                                data |-> data, ok |-> TRUE]),
                            !.props = [p \in DOMAIN @ \cup {<<window, property>>} |->
                                          IF p = <<window, property>> THEN data
                                          ELSE @[p]]])

\* The windows of the clients with the given handles, or a panic:
\* `.map(|v| self.context.windows[*v].window)`.
WindowsOf(s, list) ==
    IF \E k \in 1..Len(list) : ClientVacant(s, list[k])
    THEN [value |-> <<>>, panic |-> TRUE]
    ELSE [value |-> [k \in 1..Len(list) |-> ClientAt(s, list[k]).window],
          panic |-> FALSE]

\* The <<handle, workspace id>> pairs set_wm_desktop goes through: workspace
\* by workspace from Rust index i on, each workspace's windows in order.
RECURSIVE DesktopPairs(_, _)
DesktopPairs(s, i) ==
    IF i >= NumWorkspaces THEN <<>>
    ELSE [k \in 1..Len(Workspace_windows(s.workspaces[i])) |->
             <<Workspace_windows(s.workspaces[i])[k], s.workspaces[i].id>>]
         \o DesktopPairs(s, i + 1)

\* ewmh::set_wm_desktop: one ChangeProperty per client; the first rejected one
\* ends the call.
RECURSIVE set_wm_desktop(_, _, _)
set_wm_desktop(state, fp, pairs) ==
    Bind(state, LAMBDA s :
        IF s.panic \/ s.err \/ Len(pairs) = 0 THEN s
        ELSE IF ClientVacant(s, Head(pairs)[1]) THEN Panic(s)
        ELSE set_wm_desktop(
                 ChangeProperty(s, fp, 5, ClientAt(s, Head(pairs)[1]).window,
                                Atoms.net_wm_desktop, <<Head(pairs)[2]>>),
                 fp, Tail(pairs)))

\* ewmh::set_desktop_names: the names of the workspaces in array order.
DesktopNames(s) == [k \in 1..NumWorkspaces |-> Workspace_name(s.workspaces[k - 1])]

\* The elements of a set of window ids in ascending order.
RECURSIVE Ascending(_)
Ascending(S) ==
    IF S = {} THEN <<>>
    ELSE LET m == CHOOSE x \in S : \A y \in S : x <= y
         IN  <<m>> \o Ascending(S \ {m})

Reverse(q) == [k \in 1..Len(q) |-> q[Len(q) + 1 - k]]

\* `self.context.window_lookup.values()`: the values in the order in which
\* the HashMap iterates its keys.
LookupValues(s) ==
    Bind(IF s.seed = "asc" THEN Ascending(DOMAIN s.window_lookup)
         ELSE Reverse(Ascending(DOMAIN s.window_lookup)),
         LAMBDA keys : [k \in 1..Len(keys) |-> s.window_lookup[keys[k]]])

\* Whether the iteration order shows in the values: they are not all equal.
OrderShows(s) == Cardinality({s.window_lookup[k] : k \in DOMAIN s.window_lookup}) > 1

\* The last three requests of Screen::update_atoms with the reserved clients
\* left out of the stacking list.
Screen_update_atoms_lists_unreserved(state, fp) ==
    Bind(state, LAMBDA s5 :
        IF s5.panic \/ s5.err THEN s5
        ELSE IF s5.current_workspace >= NumWorkspaces THEN Panic(s5)
        ELSE Bind(WindowsOf(s5, Workspace_windows(
                                    s5.workspaces[s5.current_workspace])),
                  LAMBDA stack :
             IF stack.panic THEN Panic(s5)
             ELSE ChangeProperty(
                      ChangeProperty(
                          ChangeProperty(s5, fp, 6, Root, Atoms.net_client_list,
                                         stack.value),
                          fp, 7, Root, Atoms.net_client_list_stacking, stack.value),
                      fp, 8, Root, Atoms.net_showing_desktop, <<0>>)))

\* The last three requests of Screen::update_atoms: the client list, the
\* stacking list and the showing-desktop flag.
Screen_update_atoms_lists(state, fp) ==
    Bind(state, LAMBDA s5 :
        IF s5.panic \/ s5.err THEN s5
        ELSE IF s5.current_workspace >= NumWorkspaces THEN Panic(s5)
        ELSE Bind(WindowsOf(s5, LookupValues(s5)), LAMBDA list :
             IF list.panic THEN Panic(s5)
             ELSE Bind(ChangeProperty([s5 EXCEPT !.hashed = @ \/ OrderShows(s5)],
                                      fp, 6, Root, Atoms.net_client_list,
                                      list.value),
                       LAMBDA s6 :
                  IF s6.err THEN s6
                  ELSE Bind(WindowsOf(s6, Workspace_windows(
                                              s6.workspaces[s6.current_workspace])),
                            LAMBDA stack :
                       IF stack.panic THEN Panic(s6)
                       ELSE ChangeProperty(
                                ChangeProperty(s6, fp, 7, Root,
                                    Atoms.net_client_list_stacking,
                                    [k \in 1..Len(Slab_iter(s6.global_windows)) |->
                                        Slab_iter(s6.global_windows)[k].window]
                                    \o stack.value),
                                fp, 8, Root, Atoms.net_showing_desktop, <<0>>)))))

\* Screen::update_atoms.  The outcome taken off the oracle is the number of
\* the request the server rejects (0: none).
Screen_update_atoms(state) ==
    Bind(state, LAMBDA s :
        IF s.panic THEN s
        ELSE Bind(Outcome(s), LAMBDA fp :
             Bind([Consume(s) EXCEPT !.err = FALSE], LAMBDA s0 :
             Bind(ChangeProperty(
                      ChangeProperty(
                          ChangeProperty(
                              ChangeProperty(s0, fp, 1, Root,
                                  Atoms.net_desktop_viewport,
                                  <<s0.reserved_space_left, s0.reserved_space_top>>),
                              fp, 2, Root, Atoms.net_number_of_desktops,
                              <<NumWorkspaces>>),
                          fp, 3, Root, Atoms.net_current_desktop,
                          <<s0.current_workspace>>),
                      fp, 4, Root, Atoms.net_desktop_names, DesktopNames(s0)),
                  LAMBDA s4 :
                      Screen_update_atoms_lists(
                          set_wm_desktop(s4, fp, DesktopPairs(s4, 0)), fp)))))

\* `_ = self.update_atoms()`: the result is dropped.
IgnoreErr(s) == [s EXCEPT !.err = FALSE]

----------------------------------------------------------------------------
(* Reserved space, src/screen.rs *)

RECURSIVE SetPositions(_, _, _)
SetPositions(state, i, pos) ==
    Bind(state, LAMBDA s :
        IF s.panic \/ i >= NumWorkspaces THEN s
        ELSE SetPositions(Workspace_set_screen_position(s, i, pos), i + 1, pos))

\* Records that a u16 operation with mathematical result x has been computed.
Computed16(s, x) == [s EXCEPT !.overflowed = @ \/ Overflows16(x)]

\* The rectangle left to the workspaces and its hand-over to every workspace,
\* the second half of Screen::size_updated.
Screen_apply_size(state) ==
    Bind(state, LAMBDA s :
        IF s.panic THEN s
        ELSE LET w1 == s.width - s.reserved_space_left
                 w2 == Wrap16(w1) - s.reserved_space_right
                 h1 == s.height - s.reserved_space_top
                 h2 == Wrap16(h1) - s.reserved_space_bottom
             IN  Bind(Computed16(Computed16(Computed16(Computed16(s, w1), w2), h1), h2),
                      LAMBDA s1 :
                          IF s.checks /\ s1.overflowed THEN Panic(s1)
                          ELSE IgnoreErr(Screen_update_atoms(
                                   SetPositions(s1, 0,
                                       Position_new(s.reserved_space_left,
                                                    s.reserved_space_top,
                                                    Wrap16(w2), Wrap16(h2)))))))

\* The horizontal half of the sanity check of Screen::size_updated.
Screen_size_updated_horizontal(state) ==
    Bind(state, LAMBDA s1 :
        LET hsum == s1.reserved_space_left + s1.reserved_space_right
        IN  IF s1.checks /\ Overflows16(hsum) THEN Panic(Computed16(s1, hsum))
            ELSE IF Wrap16(hsum) >= s1.width
                 THEN Screen_apply_size(
                          [Computed16(s1, hsum) EXCEPT !.reserved_space_left = 0,
                                                       !.reserved_space_right = 0])
                 ELSE Screen_apply_size(Computed16(s1, hsum)))

\* Screen::size_updated
Screen_size_updated(state) ==
    Bind(state, LAMBDA s :
        IF s.panic THEN s
        ELSE LET vsum == s.reserved_space_bottom + s.reserved_space_top
             IN  IF s.checks /\ Overflows16(vsum) THEN Panic(Computed16(s, vsum))
                 ELSE IF Wrap16(vsum) >= s.height
                      THEN Screen_size_updated_horizontal(
                               [Computed16(s, vsum) EXCEPT !.reserved_space_top = 0,
                                                           !.reserved_space_bottom = 0])
                      ELSE Screen_size_updated_horizontal(Computed16(s, vsum)))

\* Screen::update_size
Screen_update_size(state, width, height) ==
    Bind(state, LAMBDA s :
        IF s.panic THEN s
        ELSE Screen_size_updated([s EXCEPT !.width = width, !.height = height]))

\* The field of Screen a direction reserves space in.
ReservedField(direction) ==
    CASE direction = "Top" -> "reserved_space_top"
      [] direction = "Bottom" -> "reserved_space_bottom"
      [] direction = "Left" -> "reserved_space_left"
      [] direction = "Right" -> "reserved_space_right"

\* Screen::reserve_space_top / _bottom / _left / _right
Screen_reserve_space(state, amount, direction) ==
    Bind(state, LAMBDA s :
        IF s.panic THEN s
        ELSE LET field == ReservedField(direction)
                 x == s[field] + amount
             IN  IF s.checks /\ Overflows16(x) THEN Panic(Computed16(s, x))
                 ELSE Screen_size_updated(
                          [Computed16(s, x) EXCEPT ![field] = Wrap16(x)]))

\* Screen::free_reserved_space and Screen::free_space_top / _bottom / _left / _right
Screen_free_reserved_space(state, amount, direction) ==
    Bind(state, LAMBDA s :
        IF s.panic THEN s
        ELSE LET field == ReservedField(direction)
                 x == s[field] - amount
             IN  IF s.checks /\ Overflows16(x) THEN Panic(Computed16(s, x))
                 ELSE Screen_size_updated(
                          [Computed16(s, x) EXCEPT ![field] = Wrap16(x)]))

----------------------------------------------------------------------------
(* Workspace switching and construction, src/screen.rs *)

\* Screen::switch_workspace with the old workspace hidden and the new one
\* shown before the properties are published.
Screen_switch_workspace_late(state, new_workspace) ==
    Bind(state, LAMBDA s :
        IF s.panic THEN s
        ELSE Screen_update_atoms(
                 Workspace_show(
                     Workspace_hide([s EXCEPT !.current_workspace = new_workspace],
                                    s.current_workspace),
                     new_workspace)))

\* Screen::switch_workspace
Screen_switch_workspace(state, new_workspace) ==
    Bind(state, LAMBDA s :
        IF s.panic THEN s
        ELSE Bind(Screen_update_atoms([s EXCEPT !.current_workspace = new_workspace]),
                  LAMBDA s1 :
                      IF s1.panic \/ s1.err THEN s1
                      ELSE Workspace_show(Workspace_hide(s1, s.current_workspace),
                                          new_workspace)))

\* Screen::new, when every request of the constructor succeeds.
Screen_new(width, height, gap) ==
    IgnoreErr(Screen_update_atoms(Screen_size_updated(Screen_switch_workspace(
        ChangeProperty(
            [width |-> width, height |-> height,
             reserved_space_bottom |-> 0, reserved_space_left |-> 0,
             reserved_space_right |-> 0, reserved_space_top |-> 0,
             workspaces |-> [i \in 0..(NumWorkspaces - 1) |->
                                Workspace_new(Position_new(0, 25, width, height),
                                              gap, i + 1)],
             global_windows |-> Slab_new,
             windows |-> Slab_new,
             window_lookup |-> <<>>,
             focused_window |-> None,
             current_workspace |-> 0,
             next_id |-> 1,
             props |-> <<>>, reqs |-> <<>>, oracle |-> <<>>, rejected |-> FALSE,
             checks |-> FALSE, overflowed |-> FALSE,
             seed |-> "asc", hashed |-> FALSE,
             err |-> FALSE, ret |-> FALSE, panic |-> FALSE],
            0, 2, Root, Atoms.net_number_of_desktops, <<NumWorkspaces>>),
        1))))

----------------------------------------------------------------------------
(* Managing windows, src/screen.rs *)

\* A u32 property value converted with `as u16`.
AsU16(v) == Wrap16(v)

\* The first 12 (or 4) cardinals of a property value: `.value::<u32>().get(0..n)`.
GetRange(value, n) == IF Len(value) >= n THEN Some(SubSeq(value, 1, n)) ELSE None

\* One checked request or awaited reply that the server may reject: takes one
\* outcome off the oracle and sets err when it is not 0.
Checked(state) ==
    Bind(state, LAMBDA s :
        IF s.panic THEN s
        ELSE [s EXCEPT !.oracle = IF Len(@) = 0 THEN @ ELSE Tail(@),
                       !.err = (Outcome(s) # 0),
                       !.rejected = @ \/ Outcome(s) # 0])

\* Screen::add_reserved_client
Screen_add_reserved_client(state, client) ==
    Bind(state, LAMBDA s :
        IF s.panic THEN s
        ELSE IF Slab_len(s.global_windows) > 255 THEN [s EXCEPT !.err = TRUE]
        ELSE Bind(Checked(Send(Send(s, Req("MapWindow", client.window)),
                               Req("ChangeWindowAttributes", client.window))),
                  LAMBDA s1 :
             IF s1.err THEN s1
             ELSE Bind(Slab_push(s1.global_windows, client), LAMBDA r :
                  IF r.panic THEN Panic([s1 EXCEPT !.global_windows = r.slab])
                  ELSE Screen_update_atoms([s1 EXCEPT !.global_windows = r.slab]))))

\* The side of the screen a strut reserves space on, were top looked at
\* before bottom.
StrutDirection_top_first(values) ==
    IF values[1] > 0 THEN "Left"
    ELSE IF values[3] > 0 THEN "Top"
    ELSE IF values[4] > 0 THEN "Bottom"
    ELSE "Right"

\* The side of the screen a strut reserves space on.
StrutDirection(values) ==
    IF values[1] > 0 THEN "Left"
    ELSE IF values[4] > 0 THEN "Bottom"
    ELSE IF values[3] > 0 THEN "Top"
    ELSE "Right"

\* The pixels a strut reserves on its side.
StrutAmount(values) ==
    CASE StrutDirection(values) = "Left" -> values[1]
      [] StrutDirection(values) = "Bottom" -> values[4]
      [] StrutDirection(values) = "Top" -> values[3]
      [] StrutDirection(values) = "Right" -> values[2]

\* The u32 extent `end - start` of the strut along its side.
StrutExtent(values) ==
    CASE StrutDirection(values) = "Left" -> values[6] - values[5]
      [] StrutDirection(values) = "Bottom" -> values[12] - values[11]
      [] StrutDirection(values) = "Top" -> values[10] - values[9]
      [] StrutDirection(values) = "Right" -> values[8] - values[7]

\* `self.height - bottom as u16`, `self.width - right as u16`
StrutFar(width, height, values) ==
    CASE StrutDirection(values) = "Bottom" -> height - AsU16(values[4])
      [] StrutDirection(values) = "Right" -> width - AsU16(values[2])
      [] OTHER -> 0

\* The rectangle of a reserved client.
StrutPosition(width, height, values) ==
    CASE StrutDirection(values) = "Left" ->
           Position_new(0, AsU16(values[5]), AsU16(values[1]),
                        AsU16(StrutExtent(values)))
      [] StrutDirection(values) = "Bottom" ->
           Position_new(AsU16(values[11]), Wrap16(StrutFar(width, height, values)),
                        AsU16(StrutExtent(values)), AsU16(values[4]))
      [] StrutDirection(values) = "Top" ->
           Position_new(AsU16(values[9]), 0, AsU16(StrutExtent(values)),
                        AsU16(values[3]))
      [] StrutDirection(values) = "Right" ->
           Position_new(Wrap16(StrutFar(width, height, values)), AsU16(values[7]),
                        AsU16(values[2]), AsU16(StrutExtent(values)))

\* Screen::handle_reserved_client.  values holds the 12 cardinals of the strut
\* with Rust index k at position k + 1.
Screen_handle_reserved_client(state, window, values) ==
    Bind(state, LAMBDA s :
        IF s.panic THEN s
        ELSE IF values[1] = 0 /\ values[4] = 0 /\ values[3] = 0 /\ values[2] = 0
             THEN [s EXCEPT !.err = TRUE]
        ELSE LET direction == StrutDirection(values)
                 amount == StrutAmount(values)
                 wraps == StrutExtent(values) < 0
                          \/ Overflows16(StrutFar(s.width, s.height, values))
             IN  Bind(Screen_reserve_space(s, AsU16(amount), direction), LAMBDA r1 :
                 IF r1.panic THEN r1
                 ELSE IF s.checks /\ wraps
                      THEN Panic([r1 EXCEPT !.overflowed = @ \/ wraps])
                 ELSE Bind(Screen_add_reserved_client(
                               [r1 EXCEPT !.overflowed = @ \/ wraps],
                               [window |-> window, direction |-> direction,
                                position |-> StrutPosition(s.width, s.height, values),
                                reserved |-> AsU16(amount)]),
                           LAMBDA s2 :
                      IF s2.panic THEN s2
                      ELSE IF s2.err
                           THEN [Screen_free_reserved_space(s2, AsU16(amount),
                                                            direction)
                                    EXCEPT !.err = TRUE]
                           ELSE s2)))

\* Client::new followed by the registration of the client, the tail of
\* Screen::add_window for a window without struts.
Screen_add_client(state, window) ==
    Bind(state, LAMBDA s :
        IF s.panic THEN s
        ELSE LET frame == Frame(s.next_id)
             IN  Bind(Checked(Send(Send([s EXCEPT !.next_id = @ + 1],
                                        Req("CreateWindow", frame)),
                                   Req("ReparentWindow", window))),
                      LAMBDA s1 :
                 IF s1.err THEN s1
                 ELSE Bind(Slab_push(s1.windows,
                               [window |-> window, frame |-> frame,
                                visible |-> FALSE,
                                workspace |-> s.current_workspace]),
                           LAMBDA r :
                      IF r.panic THEN Panic([s1 EXCEPT !.windows = r.slab])
                      ELSE Bind([s1 EXCEPT
                                    !.windows = r.slab,
                                    !.window_lookup =
                                        [k \in DOMAIN @ \cup {frame, window} |->
                                            IF k \in {frame, window} THEN r.idx
                                            ELSE @[k]]],
                                LAMBDA s3 :
                           IF s3.current_workspace >= NumWorkspaces THEN Panic(s3)
                           ELSE Workspace_spawn_window(s3, s3.current_workspace,
                                                       r.idx)))))

\* The branch of Screen::add_window for a window with a strut.
Screen_add_strut(state, window, values) ==
    Bind(Screen_handle_reserved_client(state, window, values), LAMBDA h :
        IF h.panic \/ h.err THEN h
        ELSE IgnoreErr(Screen_update_atoms(h)))

\* Screen::add_window.  properties is what GetProperty finds on the window:
\* a function from property names to lists of u32 (<<>> when absent).
Screen_add_window(state, window, properties) ==
    Bind(state, LAMBDA s :
        IF s.panic THEN s
        ELSE LET partial == GetRange(properties[Atoms.net_wm_strut_partial], 12)
                 strut == GetRange(properties[Atoms_net_wm_strut], 4)
             IN  Bind(Checked(Send(Send(s,
                          [req |-> "GetProperty", window |-> window,
                           property |-> Atoms.net_wm_strut_partial]),
                          [req |-> "GetProperty", window |-> window,
                           property |-> Atoms_net_wm_strut])),
                      LAMBDA s1 :
                 IF s1.err THEN s1
                 ELSE IF IsSome(partial)
                      THEN Screen_add_strut(s1, window, Unwrap(partial))
                 ELSE Bind(Checked(s1), LAMBDA s2 :
                      IF s2.err THEN s2
                      ELSE IF IsSome(strut)
                           THEN Screen_add_strut(s2, window,
                                    Unwrap(strut) \o <<0, 0, 0, 0, 0, 0, 0, 0>>)
                      ELSE Screen_add_client(s2, window))))

\* The MapRequest arm of the reactor, src/wm.rs: a window add_window fails
\* for is destroyed.
Event_MapRequest(state, window, properties) ==
    Bind(Screen_add_window(state, window, properties), LAMBDA s1 :
        IF s1.panic \/ ~s1.err THEN s1
        ELSE Send(s1, Req("DestroyWindow", window)))

RECURSIVE RemoveFromWorkspaces(_, _, _)
RemoveFromWorkspaces(state, i, idx) ==
    Bind(state, LAMBDA s :
        IF s.panic \/ i >= NumWorkspaces THEN s
        ELSE RemoveFromWorkspaces(Workspace_remove_window(s, i, idx), i + 1, idx))

\* The purge of window_lookup: every key that maps to idx is removed.
PurgeLookup(s, idx) ==
    [s EXCEPT !.window_lookup =
        [k \in {j \in DOMAIN @ : @[j] # idx} |-> @[k]]]

\* The server forgets the properties of a window that no longer exists.
ForgetWindow(state, window) ==
    Bind(state, LAMBDA s :
        IF \E i \in 1..Len(s.windows.entries) :
               IsSome(s.windows.entries[i])
               /\ Unwrap(s.windows.entries[i]).window = window
        THEN s
        ELSE [s EXCEPT !.props = [p \in {q \in DOMAIN @ : q[1] # window} |-> @[p]]])

\* The loop of Screen::remove_window over the reserved clients, from index i.
RECURSIVE RemoveReserved(_, _, _)
RemoveReserved(state, i, window) ==
    Bind(state, LAMBDA s :
        IF s.panic \/ i >= Slab_max_len(s.global_windows) THEN s
        ELSE Bind(Slab_get(s.global_windows, i), LAMBDA g :
             IF g = None \/ Unwrap(g).window # window
             THEN RemoveReserved(s, i + 1, window)
             ELSE Bind(Screen_free_reserved_space(
                           [s EXCEPT !.global_windows =
                                         Slab_remove(s.global_windows, i).slab],
                           Unwrap(g).reserved, Unwrap(g).direction),
                       LAMBDA s1 :
                  IF s1.panic THEN s1
                  ELSE RemoveReserved(
                           Send(Send(s1, Req("UnmapWindow", window)),
                                Req("DestroyWindow", window)),
                           i + 1, window))))

\* A variant of the tail that leaves the entries of window_lookup in place.
Screen_forget_client_keeps_lookup(state, idx, child) ==
    Bind(state, LAMBDA s :
        IF s.panic THEN s
        ELSE ForgetWindow([s EXCEPT !.windows = Slab_remove(s.windows, idx).slab],
                          child))

\* The tail of the managed branch of Screen::remove_window and of
\* Screen::close_focused_window: the client leaves the slab and the lookup.
Screen_forget_client(state, idx, child) ==
    Bind(state, LAMBDA s :
        IF s.panic THEN s
        ELSE ForgetWindow(
                 PurgeLookup([s EXCEPT !.windows = Slab_remove(s.windows, idx).slab],
                             idx), child))

\* A variant of remove_window that takes handle 0 for a window it does not
\* find in window_lookup.
Screen_remove_window_unwrap_or_default(state, window) ==
    Bind(state, LAMBDA s :
        IF s.panic THEN s
        ELSE Bind(IF window \in DOMAIN s.window_lookup
                  THEN s.window_lookup[window] ELSE 0, LAMBDA window_idx :
             IF ClientVacant(s, window_idx) THEN Panic(s)
             ELSE RemoveReserved(
                      Screen_forget_client(
                          Client_destroy(RemoveFromWorkspaces(s, 0, window_idx),
                                         window_idx),
                          window_idx, ClientAt(s, window_idx).window),
                      0, window)))

\* Screen::remove_window
Screen_remove_window(state, window) ==
    Bind(state, LAMBDA s :
        IF s.panic THEN s
        ELSE IF window \in DOMAIN s.window_lookup
             THEN Bind(s.window_lookup[window], LAMBDA window_idx :
                  RemoveReserved(
                      Screen_forget_client(
                          Client_destroy(RemoveFromWorkspaces(s, 0, window_idx),
                                         window_idx),
                          window_idx, ClientAt(s, window_idx).window),
                      0, window))
             ELSE RemoveReserved(s, 0, window))

RECURSIVE UnfocusAll(_, _)
UnfocusAll(state, i) ==
    Bind(state, LAMBDA s :
        IF s.panic \/ i >= NumWorkspaces THEN s
        ELSE UnfocusAll(Workspace_unfocus_all(s, i), i + 1))

\* The loop of Screen::enter_client over the reserved clients.
FocusReserved(state, client) ==
    Bind(state, LAMBDA s :
        IF \E k \in 1..Len(Slab_iter(s.global_windows)) :
               Slab_iter(s.global_windows)[k].window = client
        THEN Send(s, Req("SetInputFocus", client))
        ELSE s)

\* Screen::enter_client
Screen_enter_client(state, client) ==
    Bind(state, LAMBDA s :
        IF s.panic THEN s
        ELSE Bind([UnfocusAll(s, 0) EXCEPT !.focused_window = None], LAMBDA s1 :
             IF client = Root THEN Send(s1, Req("SetInputFocus", Root))
             ELSE IF client \in DOMAIN s1.window_lookup
             THEN LET idx == s1.window_lookup[client]
                  IN  IF s1.current_workspace >= NumWorkspaces THEN Panic(s1)
                      ELSE IF Workspace_has_client(
                                  s1.workspaces[s1.current_workspace], idx)
                      THEN [Workspace_focus_client(s1, s1.current_workspace, idx)
                               EXCEPT !.focused_window = Some(idx)]
                      ELSE FocusReserved(s1, client)
             ELSE FocusReserved(s1, client)))

\* ewmh::window_supports for WM_DELETE_WINDOW.  advertises is whether
\* WM_PROTOCOLS of the window lists it; the outcome taken off the oracle is
\* that of the GetProperty reply, and a rejected reply counts as "no".
window_supports(state, window, advertises) ==
    Bind(Checked(Send(state, [req |-> "GetProperty", window |-> window,
                              property |-> "WM_PROTOCOLS"])),
         LAMBDA s1 : [s1 EXCEPT !.err = FALSE, !.ret = advertises /\ ~s1.err])

\* ewmh::delete_window: whether the window was destroyed on the spot.
\* The outcome taken off the oracle is that of the SendEvent request.
delete_window(state, window, advertises) ==
    Bind(window_supports(state, window, advertises), LAMBDA s0 :
        IF s0.ret
        THEN Bind(Checked(Send(s0, Req("SendEvent", window))), LAMBDA s1 :
                 IF s1.err
                 THEN [Send(s1, Req("DestroyWindow", window))
                          EXCEPT !.err = FALSE, !.ret = TRUE]
                 ELSE [s1 EXCEPT !.ret = FALSE])
        ELSE [Send(s0, Req("DestroyWindow", window)) EXCEPT !.ret = TRUE])

\* Client::close on `ctx.windows[idx]`
Client_close(state, idx, advertises) ==
    Bind(state, LAMBDA s :
        IF s.panic THEN s
        ELSE IF ClientVacant(s, idx) THEN Panic(s)
        ELSE Bind(delete_window(s, ClientAt(s, idx).window, advertises), LAMBDA s1 :
                 IF s1.ret THEN Client_destroy(s1, idx) ELSE s1))

\* Screen::close_focused_window
Screen_close_focused_window(state, advertises) ==
    Bind(state, LAMBDA s :
        IF s.panic THEN s
        ELSE IF s.focused_window = None THEN s
        ELSE Bind(Client_close([s EXCEPT !.focused_window = None],
                               Unwrap(s.focused_window), advertises),
                  LAMBDA s1 :
             IF s1.panic THEN s1
             ELSE IF s1.ret
                  THEN Screen_forget_client(
                           RemoveFromWorkspaces(s1, 0, Unwrap(s.focused_window)),
                           Unwrap(s.focused_window),
                           ClientAt(s1, Unwrap(s.focused_window)).window)
                  ELSE s1))

\* Screen::cycle_layout
Screen_cycle_layout(state) ==
    Bind(state, LAMBDA s :
        IF s.panic THEN s
        ELSE IF s.current_workspace >= NumWorkspaces THEN Panic(s)
        ELSE IgnoreErr(Screen_update_atoms(
                 Workspace_cycle_layout(s, s.current_workspace))))

\* Screen::set_layout
Screen_set_layout(state, new_layout) ==
    Bind(state, LAMBDA s :
        IF s.panic THEN s
        ELSE IF s.current_workspace >= NumWorkspaces THEN Panic(s)
        ELSE IgnoreErr(Screen_update_atoms(
                 Workspace_set_layout(s, s.current_workspace, new_layout))))

----------------------------------------------------------------------------
(* The reactor's handlers as actions.  What the X server and the clients   *)
(* decide (which request is rejected, what a window's properties hold, the *)
(* order in which the HashMap window_lookup iterates) is an input.         *)

MaxSteps == 3         \* handler calls in one run of Spec
MaxClientSteps == 5   \* handler calls in one run of SpecClients
MaxDesktopSteps == 4  \* handler calls in one run of SpecDesktops
MaxDockSteps == 4     \* handler calls in one run of SpecDocks
MaxStrutSteps == 3    \* handler calls in one run of SpecStruts
MaxFailures == 1      \* requests the X server rejects in one run
MaxFailPoint == 1     \* the requests of one publication that can be the rejected one
MaxReserved == 2      \* reserved clients alive at one time
MaxLayoutOps == 1     \* cycle_layout and set_layout calls in one run

InitSizes == {<<1920, 1080>>}
Sizes == {<<1920, 1080>>, <<20, 20>>}
SwitchInputs == {1, 2, NumWorkspaces}
LayoutInputs == {"Monocle"}

\* Struts as [left, right, top, bottom]: a 24 pixel bar at the top, and a
\* bottom strut close to the largest u16.
StrutInputs == {<<0, 0, 24, 0>>, <<0, 0, 0, 65530>>}

\* Struts with nonzero values on several sides: left, top and bottom; top
\* and right; top and a bottom nearly as high as the screen.
SideStruts == {<<8, 0, 24, 16>>, <<0, 16, 24, 0>>, <<0, 0, 24, 1070>>}

ZeroStrut == <<0, 0, 0, 0>>

PropertyNames == {Atoms.net_wm_strut_partial, Atoms_net_wm_strut,
                  "_NET_WM_STRUT_PARTIAL"}

NoProperties == [n \in PropertyNames |-> <<>>]

\* The properties of a dock: _NET_WM_STRUT and the matching _NET_WM_STRUT_PARTIAL.
DockProperties(strut) ==
    [n \in PropertyNames |->
        IF n = "_NET_WM_STRUT" THEN strut
        ELSE IF n = "_NET_WM_STRUT_PARTIAL"
             THEN strut \o <<0, 0, 0, 0, 0, 0, 0, 0>>
             ELSE <<>>]

\* The oracles with at most one rejected request: shape[p] is the number of
\* ways the p-th checked step of the handler can be rejected.
Zeros(n) == [k \in 1..n |-> 0]
Oracles(shape) ==
    {<<>>} \cup UNION {{Zeros(p - 1) \o <<k>> : k \in 1..shape[p] \cap 1..MaxFailPoint} :
                           p \in 1..Len(shape)}

Rejected(oracle) == \E k \in 1..Len(oracle) : oracle[k] # 0

\* The builds and the iteration orders a run can still turn out to have.
Checks == IF build = "any" THEN BOOLEAN ELSE {build = "debug"}
Seeds == IF hash_seed = "any" THEN {"asc", "desc"} ELSE {hash_seed}

Begin(s, oracle, checks, seed) ==
    [s EXCEPT !.reqs = <<>>, !.oracle = oracle, !.rejected = FALSE,
              !.checks = checks, !.overflowed = FALSE,
              !.seed = seed, !.hashed = FALSE,
              !.err = FALSE, !.ret = FALSE]

\* The requests whose effect the state does not record otherwise.
Unrecorded == {"DestroyWindow", "SendEvent"}

Finish(s) == [s EXCEPT !.reqs = SelectSeq(@, LAMBDA r : r.req \in Unrecorded),
                       !.oracle = <<>>, !.rejected = FALSE,
                       !.checks = FALSE, !.overflowed = FALSE,
                       !.seed = "asc", !.hashed = FALSE]

\* The managed clients of a state, each with its handle.
LiveClients(s) ==
    {[idx |-> i - 1, window |-> Unwrap(s.windows.entries[i]).window,
      frame |-> Unwrap(s.windows.entries[i]).frame] :
        i \in {j \in 1..Len(s.windows.entries) : IsSome(s.windows.entries[j])}}

\* Whether the run sent a request of the given kind.
Sent(s, kind) == \E k \in 1..Len(s.reqs) : s.reqs[k].req = kind

\* What an observer of the X server sees of a workspace switch, in order:
\* the publications of the current desktop and the maps and unmaps of windows.
SwitchTrace(s) ==
    SelectSeq(s.reqs, LAMBDA r :
        \/ r.req \in {"MapWindow", "UnmapWindow"}
        \/ r.req = "ChangeProperty" /\ r.property = Atoms.net_current_desktop)

\* The values a handler has published for a property of the root window, in
\* order.
Publications(s, property) ==
    Bind(SelectSeq(s.reqs, LAMBDA r :
             r.req = "ChangeProperty" /\ r.window = Root
             /\ r.property = property /\ r.ok),
         LAMBDA q : [k \in 1..Len(q) |-> q[k].data])

\* The pixels the reserved clients of a window hold on one side.
RECURSIVE SumReserved(_, _, _)
SumReserved(items, window, direction) ==
    IF Len(items) = 0 THEN 0
    ELSE (IF Head(items).window = window /\ Head(items).direction = direction
          THEN Head(items).reserved ELSE 0)
         + SumReserved(Tail(items), window, direction)

Freed(s, window, direction) ==
    SumReserved(Slab_iter(s.global_windows), window, direction)

\* A handler has run from screen to s.  An input that made no difference to
\* the run (a rejection of a request that was never sent, the build when
\* nothing overflowed, the iteration order when nothing showed it) is taken
\* in one way only.
Ran(state, c, oracle, checks, seed) ==
    /\ budget > 0
    /\ Rejected(oracle) => failures < MaxFailures
    /\ \E s \in {state} :
            LET removed == LiveClients(screen) \ LiveClients(s)
                \* the clients whose DestroyNotify this is
                awaited == IF c.op = "remove_window"
                           THEN {a \in closing : a.window = c.window} ELSE {}
                \* the client that has just been asked to close itself
                asked == IF c.op = "close_focused_window" /\ ~s.panic
                            /\ Sent(s, "SendEvent") /\ ~Sent(s, "DestroyWindow")
                         THEN {a \in LiveClients(screen) :
                                  a.idx = Unwrap(screen.focused_window)}
                         ELSE {}
            IN  /\ Rejected(oracle) => s.rejected
                /\ (build = "any" /\ ~s.overflowed) => ~checks
                /\ (hash_seed = "any" /\ ~s.hashed) => seed = "asc"
                /\ screen' = Finish(s)
                /\ call' = c @@ [err |-> s.err, panic |-> s.panic,
                                 rejected |-> Rejected(oracle),
                                 removed |-> removed, awaited |-> awaited,
                                 trace |-> IF c.op = "switch_workspace"
                                           THEN SwitchTrace(s) ELSE <<>>,
                                 lists |-> Publications(s, Atoms.net_client_list),
                                 stacks |-> Publications(
                                                s, Atoms.net_client_list_stacking)]
                /\ fault' = s.panic
                /\ failures' = IF Rejected(oracle) THEN failures + 1 ELSE failures
                /\ build' = IF build = "any" /\ s.overflowed
                            THEN (IF checks THEN "debug" ELSE "release") ELSE build
                /\ hash_seed' = IF hash_seed = "any" /\ s.hashed THEN seed ELSE hash_seed
                /\ budget' = budget - 1
                /\ focus_removed' =
                       /\ s.focused_window # None
                       /\ c.op # "enter_client"
                       /\ \/ focus_removed
                          \/ \E r \in removed : r.idx = Unwrap(s.focused_window)
                /\ closing' = ((closing \ awaited) \ removed) \cup asked
                /\ UNCHANGED <<slabVars, partVars>>

\* The state after Screen::new, with the given number of handler calls to come.
Booted(steps) ==
    /\ slab = Slab_new
    /\ handles = {}
    /\ vacated = {}
    /\ slab_call = [op |-> "new"]
    /\ fault = FALSE
    /\ build = "any"
    /\ hash_seed = "any"
    /\ \E size \in InitSizes : screen = Finish(Screen_new(size[1], size[2], 0))
    /\ call = [op |-> "new", err |-> FALSE, panic |-> FALSE, rejected |-> FALSE,
               removed |-> {}, awaited |-> {}, trace |-> <<>>,
               lists |-> <<>>, stacks |-> <<>>]
    /\ failures = 0
    /\ layout_ops = 0
    /\ budget = steps
    /\ focus_removed = FALSE
    /\ closing = {}

\* The Screen on its own: its handlers are called directly.
Started(steps) ==
    /\ Booted(steps)
    /\ wm = <<>>
    /\ tiling = <<>>
    /\ workspace = <<>>
    /\ keyboard = <<>>

Init == Started(MaxSteps)

UpdateSize ==
    /\ ~fault
    /\ \E size \in Sizes, oracle \in Oracles(<<8>>), checks \in Checks, seed \in Seeds :
          Ran(Screen_update_size(Begin(screen, oracle, checks, seed), size[1], size[2]),
              [op |-> "update_size",
               before |-> [top |-> screen.reserved_space_top,
                           bottom |-> screen.reserved_space_bottom,
                           left |-> screen.reserved_space_left,
                           right |-> screen.reserved_space_right]],
              oracle, checks, seed)
    /\ UNCHANGED layout_ops

SwitchWorkspace ==
    /\ ~fault
    /\ \E n \in SwitchInputs, oracle \in Oracles(<<8>>), checks \in Checks,
          seed \in Seeds :
          Ran(Screen_switch_workspace(Begin(screen, oracle, checks, seed), n),
              [op |-> "switch_workspace", n |-> n], oracle, checks, seed)
    /\ UNCHANGED layout_ops

\* MapRequest for a window that carries no strut.
AddWindow ==
    /\ ~fault
    /\ screen.next_id <= MaxFrames
    /\ \E window \in Children, oracle \in Oracles(<<1, 1, 1>>), checks \in Checks,
          seed \in Seeds :
          Ran(Event_MapRequest(Begin(screen, oracle, checks, seed), window,
                               NoProperties),
              [op |-> "add_window", window |-> window, reserved |-> FALSE,
               known |-> window \in DOMAIN screen.window_lookup],
              oracle, checks, seed)
    /\ UNCHANGED layout_ops

\* MapRequest for a window that carries one of the given struts.
AddReserved(struts) ==
    /\ ~fault
    /\ Slab_len(screen.global_windows) < MaxReserved
    /\ \E window \in Children, strut \in struts,
          oracle \in Oracles(<<1, 1, 8, 1, 8, 8>>), checks \in Checks,
          seed \in Seeds :
          Ran(Event_MapRequest(Begin(screen, oracle, checks, seed), window,
                               DockProperties(strut)),
              [op |-> "add_window", window |-> window, reserved |-> TRUE,
               known |-> window \in DOMAIN screen.window_lookup,
               strut |-> strut,
               before |-> [top |-> screen.reserved_space_top,
                           bottom |-> screen.reserved_space_bottom,
                           left |-> screen.reserved_space_left,
                           right |-> screen.reserved_space_right,
                           docks |-> {Slab_iter(screen.global_windows)[k].window :
                                         k \in 1..Len(Slab_iter(screen.global_windows))}]],
              oracle, checks, seed)
    /\ UNCHANGED layout_ops

\* MapRequest for a dock.
AddReservedWindow == AddReserved(StrutInputs)

\* MapRequest for a window whose strut names several sides.
AddStrutWindow == AddReserved(SideStruts)

\* MapRequest for a window whose strut is present and all zero.
AddZeroStrutWindow == AddReserved({ZeroStrut})

\* DestroyNotify
RemoveWindow ==
    /\ ~fault
    /\ \E window \in Children \cup Frames, oracle \in Oracles(<<8>>),
          checks \in Checks, seed \in Seeds :
          Ran(Screen_remove_window(Begin(screen, oracle, checks, seed), window),
              [op |-> "remove_window", window |-> window,
               before |-> [top |-> screen.reserved_space_top,
                           bottom |-> screen.reserved_space_bottom,
                           left |-> screen.reserved_space_left,
                           right |-> screen.reserved_space_right],
               freed |-> [d \in {"Top", "Bottom", "Left", "Right"} |->
                             Freed(screen, window, d)]],
              oracle, checks, seed)
    /\ UNCHANGED layout_ops

\* EnterNotify
EnterClient ==
    /\ ~fault
    /\ \E client \in XWindows, checks \in Checks, seed \in Seeds :
          Ran(Screen_enter_client(Begin(screen, <<>>, checks, seed), client),
              [op |-> "enter_client", client |-> client], <<>>, checks, seed)
    /\ UNCHANGED layout_ops

\* The CloseFocusedWindow action.  The oracle holds the outcome of the
\* GetProperty reply and that of the SendEvent request.
CloseFocusedWindow ==
    /\ ~fault
    /\ \E advertises \in BOOLEAN, oracle \in Oracles(<<1, 1>>), checks \in Checks,
          seed \in Seeds :
          Ran(Screen_close_focused_window(Begin(screen, oracle, checks, seed),
                                          advertises),
              [op |-> "close_focused_window", advertises |-> advertises,
               oracle |-> oracle, focused |-> screen.focused_window,
               stale |-> focus_removed],
              oracle, checks, seed)
    /\ UNCHANGED layout_ops

\* The CycleLayout action
CycleLayout ==
    /\ ~fault
    /\ layout_ops < MaxLayoutOps
    /\ \E oracle \in Oracles(<<8>>), checks \in Checks, seed \in Seeds :
          Ran(Screen_cycle_layout(Begin(screen, oracle, checks, seed)),
              [op |-> "cycle_layout"], oracle, checks, seed)
    /\ layout_ops' = layout_ops + 1

\* The SwitchToLayout action
SetLayout ==
    /\ ~fault
    /\ layout_ops < MaxLayoutOps
    /\ \E new_layout \in LayoutInputs, oracle \in Oracles(<<8>>), checks \in Checks,
          seed \in Seeds :
          Ran(Screen_set_layout(Begin(screen, oracle, checks, seed), new_layout),
              [op |-> "set_layout"], oracle, checks, seed)
    /\ layout_ops' = layout_ops + 1

Next ==
    \/ UpdateSize
    \/ SwitchWorkspace
    \/ AddWindow
    \/ AddReservedWindow
    \/ RemoveWindow
    \/ EnterClient
    \/ CloseFocusedWindow
    \/ CycleLayout
    \/ SetLayout

Spec == Init /\ [][Next]_vars

\* The life of the managed clients alone: windows are mapped, entered, closed
\* and destroyed; nothing else happens, and the runs are longer.
InitClients == Started(MaxClientSteps)

NextClients ==
    \/ AddWindow
    \/ RemoveWindow
    \/ EnterClient
    \/ CloseFocusedWindow

SpecClients == InitClients /\ [][NextClients]_vars

\* Clients and desktops: windows are mapped, entered and destroyed while the
\* workspaces are switched.
InitDesktops == Started(MaxDesktopSteps)

NextDesktops ==
    \/ AddWindow
    \/ SwitchWorkspace
    \/ EnterClient
    \/ RemoveWindow

SpecDesktops == InitDesktops /\ [][NextDesktops]_vars

\* The life of the reserved clients: docks are mapped and destroyed and the
\* screen is resized.
InitDocks == Started(MaxDockSteps)

NextDocks ==
    \/ AddReservedWindow
    \/ RemoveWindow
    \/ UpdateSize

SpecDocks == InitDocks /\ [][NextDocks]_vars

\* Windows whose struts name several sides are mapped and destroyed.
InitStruts == Started(MaxStrutSteps)

NextStruts ==
    \/ AddStrutWindow
    \/ AddZeroStrutWindow
    \/ RemoveWindow

SpecStruts == InitStruts /\ [][NextStruts]_vars

----------------------------------------------------------------------------
(* Properties of the Slab *)

\* The lowest vacant index of a slab, or its length when every slot is occupied.
LowestVacant(s) ==
    IF \E i \in 1..Len(s.entries) : s.entries[i] = None
    THEN (CHOOSE i \in 1..Len(s.entries) :
             /\ s.entries[i] = None
             /\ \A j \in 1..(i - 1) : s.entries[j] # None) - 1
    ELSE Len(s.entries)

\* The values of a set of (idx, v) handles in ascending index order.
RECURSIVE InIndexOrder(_)
InIndexOrder(hs) ==
    IF hs = {} THEN <<>>
    ELSE LET m == CHOOSE h \in hs : \A g \in hs : h.idx <= g.idx
         IN  <<m.v>> \o InIndexOrder(hs \ {m})

\* C1: every index returned by push(v) and not removed since still holds v:
\* get(idx) = Some(v), whatever other indices were pushed or removed in
\* between, and an index handed out again after its removal holds the new value.
SlabStability ==
    \A h \in handles : Slab_get(slab, h.idx) = Some(h.v)

\* A push has just reused a vacated index while another handle is live.
SlabStabilityWitness ==
    /\ slab_call.op = "push"
    /\ ~slab_call.panic
    /\ slab_call.idx < Len(slab_call.before.entries)
    /\ Cardinality(handles) >= 2

\* C2: every push completes without fault, stores v in the lowest vacant slot
\* (or appends when there is none) and returns the index where v is stored.
PushFillsLowestVacant ==
    slab_call.op = "push" =>
        /\ ~slab_call.panic
        /\ slab_call.idx = LowestVacant(slab_call.before)
        /\ Slab_get(slab, slab_call.idx) = Some(slab_call.v)

\* C3: a slot vacated by remove and not reused never yields the removed value:
\* get returns None for it and the Index operator panics.
VacantLookupNeverStale ==
    /\ ~fault => \A i \in vacated :
                    /\ Slab_get(slab, i) = None
                    /\ Slab_index(slab, i).panic
    /\ (slab_call.op = "get" /\ slab_call.idx \in vacated) =>
           slab_call.value = None
    /\ (slab_call.op = "index" /\ slab_call.idx \in vacated) =>
           slab_call.panic /\ slab_call.value = None

\* The Index operator was applied to a vacated slot and panicked.
VacantLookupWitness ==
    /\ slab_call.op = "index"
    /\ slab_call.idx \in vacated
    /\ fault

\* C4: iter and iter_mut yield exactly the live elements, each once, in
\* ascending index order, and len() is the number of elements they yield.
IterYieldsLive ==
    /\ ~fault => /\ Slab_iter(slab) = InIndexOrder(handles)
                 /\ Slab_len(slab) = Len(Slab_iter(slab))
    /\ slab_call.op = "iter" =>
           /\ slab_call.items = InIndexOrder(handles)
           /\ slab_call.len = Len(slab_call.items)

\* The slab was iterated while a vacated slot lay below a live element.
IterYieldsLiveWitness ==
    /\ slab_call.op = "iter"
    /\ \E i \in vacated : \E h \in handles : i < h.idx

----------------------------------------------------------------------------
(* Properties of the Screen *)

\* C5: after update_size(w, h) returns, reserved_top + reserved_bottom < h and
\* reserved_left + reserved_right < w; the counters of an axis are zeroed
\* when their sum is at least the extent of that axis and are left unchanged
\* otherwise.
StrutSanity ==
    (call.op = "update_size" /\ ~call.panic) =>
        /\ screen.reserved_space_top + screen.reserved_space_bottom < screen.height
        /\ screen.reserved_space_left + screen.reserved_space_right < screen.width
        /\ IF call.before.top + call.before.bottom >= screen.height
           THEN screen.reserved_space_top = 0 /\ screen.reserved_space_bottom = 0
           ELSE /\ screen.reserved_space_top = call.before.top
                /\ screen.reserved_space_bottom = call.before.bottom
        /\ IF call.before.left + call.before.right >= screen.width
           THEN screen.reserved_space_left = 0 /\ screen.reserved_space_right = 0
           ELSE /\ screen.reserved_space_left = call.before.left
                /\ screen.reserved_space_right = call.before.right

\* The workspaces that are showing.
Showing(s) == {i \in 0..(NumWorkspaces - 1) : s.workspaces[i].is_showing}

\* C6: in every reachable state at most one of the ten workspaces has
\* is_showing = true.
WorkspaceExclusivity == Cardinality(Showing(screen)) <= 1

\* The client is managed: its slot holds it, both its ids resolve to its
\* handle, and its workspace lists the handle.
Managed(s, c) ==
    /\ c \in LiveClients(s)
    /\ c.window \in DOMAIN s.window_lookup /\ s.window_lookup[c.window] = c.idx
    /\ c.frame \in DOMAIN s.window_lookup /\ s.window_lookup[c.frame] = c.idx

\* The client is gone: its slot does not hold it, neither of its ids
\* resolves, and no workspace lists its handle unless the handle has gone
\* to another client.
Gone(s, c) ==
    /\ c \notin LiveClients(s)
    /\ c.window \notin DOMAIN s.window_lookup
    /\ c.frame \notin DOMAIN s.window_lookup
    /\ ClientVacant(s, c.idx) =>
           \A i \in 0..(NumWorkspaces - 1) : ~Workspace_has_client(s.workspaces[i], c.idx)

\* C7: for every managed client both its frame id and its child window id are
\* keys of window_lookup and map to the same slab index, which holds that
\* client; after the client is removed by remove_window or by a synchronous
\* close_focused_window, neither id is a key of window_lookup.
LookupIntegrity ==
    ~fault =>
        /\ \A c \in LiveClients(screen) : Managed(screen, c)
        /\ \A c \in call.removed :
               c.window \notin DOMAIN screen.window_lookup
               /\ c.frame \notin DOMAIN screen.window_lookup

\* C8: close_focused_window, invoked when the handle recorded as focused has
\* already been removed from the slab, does not fault, sends no close or
\* destroy request and leaves slab, lookup and workspace lists unchanged.
CloseIdempotence ==
    [][(call'.op = "close_focused_window" /\ call'.stale) =>
           /\ ~fault'
           /\ screen'.reqs = <<>>
           /\ screen'.windows = screen.windows
           /\ screen'.window_lookup = screen.window_lookup
           /\ \A i \in 0..(NumWorkspaces - 1) :
                  Workspace_windows(screen'.workspaces[i])
                      = Workspace_windows(screen.workspaces[i])]_vars

\* C9: close_focused_window removes the focused client at once if and only if
\* the client does not advertise WM_DELETE_WINDOW or the SendEvent fails; when
\* it advertises it and the ClientMessage is sent, the client stays managed
\* until a DestroyNotify for it is processed, and after that DestroyNotify it
\* is in none of slab, lookup and workspaces.
DeferredClose ==
    ~fault =>
        /\ (call.op = "close_focused_window" /\ call.focused # None /\ ~call.stale) =>
               \A c \in {a \in call.removed \cup LiveClients(screen) :
                             a.idx = Unwrap(call.focused)} :
                   /\ Gone(screen, c) <=> (~call.advertises \/ call.oracle = <<0, 1>>)
                   /\ ~Gone(screen, c) => Managed(screen, c) /\ c \in closing
        /\ \A c \in closing : Managed(screen, c)
        /\ \A c \in call.awaited : Gone(screen, c)

\* The values the model gives the properties of the root window, under the
\* names the program publishes them by; the client list as the set of its
\* elements.
Mirror(s) ==
    [viewport |-> <<s.reserved_space_left, s.reserved_space_top>>,
     number |-> <<NumWorkspaces>>,
     current |-> <<s.current_workspace>>,
     clients |-> {c.window : c \in LiveClients(s)}]

\* What the root window holds under those names.
Published(s) ==
    LET prop(name) == IF <<Root, name>> \in DOMAIN s.props
                      THEN s.props[<<Root, name>>] ELSE <<>>
        list == prop(Atoms.net_client_list)
    IN  [viewport |-> prop(Atoms.net_desktop_viewport),
         number |-> prop(Atoms.net_number_of_desktops),
         current |-> prop(Atoms.net_current_desktop),
         clients |-> {list[k] : k \in 1..Len(list)}]

MutatingOps == {"add_window", "remove_window", "close_focused_window",
                "switch_workspace", "cycle_layout", "set_layout", "update_size"}

\* C10: after each mutating Screen operation completes, the EWMH properties
\* last published on the root window equal the values derived from the model
\* at that moment; in particular a client removed by DestroyNotify is no
\* longer in the published _NET_CLIENT_LIST.
MirrorFollowsModel ==
    (call.op \in MutatingOps /\ ~call.panic /\ ~call.rejected) =>
        Published(screen) = Mirror(screen)

SwitchShowsWorkspace ==
    (call.op = "switch_workspace" /\ call.n \in 1..NumWorkspaces /\ ~call.rejected) =>
        /\ ~call.panic
        /\ screen.current_workspace = call.n
        /\ \A i \in 0..(NumWorkspaces - 1) :
               screen.workspaces[i].is_showing <=> screen.workspaces[i].id = call.n

\* The workspaces whose lists contain a handle.
Owners(s, idx) ==
    {i \in 0..(NumWorkspaces - 1) : Workspace_has_client(s.workspaces[i], idx)}

\* C13: for every managed client the workspace id recorded in the client at
\* its creation, the id of the workspace that lists its handle and the
\* desktop published for its child window (once one is published) are equal.
DesktopAgreement ==
    ~fault =>
        \A c \in LiveClients(screen) :
            /\ \A i \in Owners(screen, c.idx) :
                   screen.workspaces[i].id = ClientAt(screen, c.idx).workspace
            /\ <<c.window, Atoms.net_wm_desktop>> \in DOMAIN screen.props =>
                   screen.props[<<c.window, Atoms.net_wm_desktop>>]
                       = <<ClientAt(screen, c.idx).workspace>>

\* The child windows of a set of clients in the order of their creation:
\* frame ids are generated in ascending order.
RECURSIVE InOrderOfCreation(_)
InOrderOfCreation(cs) ==
    IF cs = {} THEN <<>>
    ELSE LET m == CHOOSE c \in cs : \A d \in cs : c.frame <= d.frame
         IN  <<m.window>> \o InOrderOfCreation(cs \ {m})

\* C14: the client list update_atoms publishes holds the child window of
\* every live managed client exactly once, in the order in which the clients
\* were added, and nothing else.
ClientListInOrder ==
    \A k \in 1..Len(call.lists) :
        call.lists[k] = InOrderOfCreation(LiveClients(screen))

\* The windows of the live reserved clients.
ReservedWindows(s) ==
    {Slab_iter(s.global_windows)[k].window : k \in 1..Len(Slab_iter(s.global_windows))}

\* The child windows of the clients the current workspace lists.
CurrentWindows(s) ==
    {ClientAt(s, Workspace_windows(s.workspaces[s.current_workspace])[k]).window :
        k \in 1..Len(Workspace_windows(s.workspaces[s.current_workspace]))}

WorkArea(s) ==
    Position_new(s.reserved_space_left, s.reserved_space_top,
                 s.width - s.reserved_space_left - s.reserved_space_right,
                 s.height - s.reserved_space_top - s.reserved_space_bottom)

\* The strut of the call reserves pixels on its top side only, fewer than
\* the screen is high, for a window the screen does not hold yet.
TopStrutOfNewWindow ==
    /\ call.op = "add_window" /\ call.reserved /\ ~call.rejected
    /\ ~call.known /\ call.window \notin call.before.docks
    /\ call.strut[1] = 0 /\ call.strut[2] = 0 /\ call.strut[4] = 0
    /\ call.strut[3] > 0 /\ call.strut[3] < screen.height

\* C16: when add_window handles a window whose strut reserves v > 0 pixels
\* on exactly one side, v smaller than the screen extent, that side's counter
\* grows by v, every workspace is given the rectangle left by the
\* reservations, and the window is a reserved client that no workspace lists
\* and the lookup does not know.
StrutReserves ==
    TopStrutOfNewWindow =>
        /\ ~call.panic
        /\ screen.reserved_space_top = call.before.top + call.strut[3]
        /\ screen.reserved_space_bottom = call.before.bottom
        /\ screen.reserved_space_left = call.before.left
        /\ screen.reserved_space_right = call.before.right
        /\ \A i \in 0..(NumWorkspaces - 1) : screen.workspaces[i].pos = WorkArea(screen)
        /\ call.window \in ReservedWindows(screen)
        /\ call.window \notin DOMAIN screen.window_lookup
        /\ \A c \in LiveClients(screen) : c.window # call.window

\* add_window has handled a strut that names several sides.
SeveralSides ==
    /\ call.op = "add_window" /\ call.reserved
    /\ ~call.rejected /\ ~call.panic
    /\ Cardinality({k \in 1..4 : call.strut[k] > 0}) > 1

\* The counters before the call with the strut's value added on one side,
\* the side taken in the order left, bottom, top, right.
Reserved(before, strut) ==
    IF strut[1] > 0 THEN [before EXCEPT !.left = Wrap16(@ + strut[1])]
    ELSE IF strut[4] > 0 THEN [before EXCEPT !.bottom = Wrap16(@ + strut[4])]
    ELSE IF strut[3] > 0 THEN [before EXCEPT !.top = Wrap16(@ + strut[3])]
    ELSE [before EXCEPT !.right = Wrap16(@ + strut[2])]

ZeroStrutIsManaged ==
    (call.op = "add_window" /\ call.reserved /\ call.strut = ZeroStrut
     /\ ~call.rejected) =>
        /\ ~call.err /\ ~call.panic
        /\ \A k \in 1..Len(screen.reqs) :
               screen.reqs[k] # Req("DestroyWindow", call.window)
        /\ call.window \in DOMAIN screen.window_lookup
        /\ \E c \in LiveClients(screen) :
               /\ c.window = call.window
               /\ Managed(screen, c)
               /\ Workspace_has_client(screen.workspaces[screen.current_workspace],
                                       c.idx)

\* x - y by saturating subtraction.
SaturatingSub(x, y) == IF x >= y THEN x - y ELSE 0

\* C19: removing a reserved client frees its extent from its own side by
\* saturating subtraction: the call does not fault and every counter is what
\* it was less the extent freed on its side, not below zero, or has been
\* zeroed by the strut validity check.
FreeSaturates ==
    (call.op = "remove_window" /\ \E d \in DOMAIN call.freed : call.freed[d] > 0) =>
        /\ ~call.panic
        /\ screen.reserved_space_top
               \in {0, SaturatingSub(call.before.top, call.freed["Top"])}
        /\ screen.reserved_space_bottom
               \in {0, SaturatingSub(call.before.bottom, call.freed["Bottom"])}
        /\ screen.reserved_space_left
               \in {0, SaturatingSub(call.before.left, call.freed["Left"])}
        /\ screen.reserved_space_right
               \in {0, SaturatingSub(call.before.right, call.freed["Right"])}

\* The managed clients of the current workspace that own a window id as
\* their frame or their child.
ClientsHere(s, w) ==
    {c \in LiveClients(s) :
        /\ w \in {c.window, c.frame}
        /\ Workspace_has_client(s.workspaces[s.current_workspace], c.idx)}

\* C20: after enter_client(w) no workspace other than the current one has a
\* focused handle; for the root window focused_window is None; for the frame
\* or child of a managed client of the current workspace focused_window and
\* the workspace's focused handle are that client's handle; for a client of
\* another workspace or a reserved client focused_window is None.
FocusFollowsEnter ==
    (call.op = "enter_client" /\ ~call.panic) =>
        /\ \A i \in 0..(NumWorkspaces - 1) :
               i # screen.current_workspace => screen.workspaces[i].focused = None
        /\ call.client = Root => screen.focused_window = None
        /\ ClientsHere(screen, call.client) # {} =>
               \E c \in ClientsHere(screen, call.client) :
                   /\ screen.focused_window = Some(c.idx)
                   /\ screen.workspaces[screen.current_workspace].focused = Some(c.idx)
        /\ (/\ ClientsHere(screen, call.client) = {}
            /\ \/ \E c \in LiveClients(screen) : call.client \in {c.window, c.frame}
               \/ call.client \in ReservedWindows(screen)) =>
               screen.focused_window = None

----------------------------------------------------------------------------
(* Screen::kill_children, src/screen.rs *)

\* The DestroyWindow requests of the loop over the managed clients.
DestroyClients(items) ==
    [k \in 1..(2 * Len(items)) |->
        Req("DestroyWindow", IF k % 2 = 1 THEN items[(k + 1) \div 2].window
                             ELSE items[k \div 2].frame)]

\* The DestroyWindow requests of the loop over the reserved clients.
DestroyReserved(items) ==
    [k \in 1..Len(items) |-> Req("DestroyWindow", items[k].window)]

\* A variant of kill_children that leaves window_lookup and the workspaces
\* as they are.
Screen_kill_children_slabs_only(state) ==
    Bind(state, LAMBDA s :
        [s EXCEPT !.reqs = @ \o <<Req("SetInputFocus", Root)>>
                             \o DestroyClients(Slab_iter(s.windows))
                             \o DestroyReserved(Slab_iter(s.global_windows)),
                  !.global_windows = Slab_clear(@),
                  !.reserved_space_bottom = 0,
                  !.reserved_space_left = 0,
                  !.reserved_space_right = 0,
                  !.reserved_space_top = 0,
                  !.windows = Slab_clear(@),
                  !.focused_window = None])

\* Screen::kill_children
Screen_kill_children(state) ==
    Bind(state, LAMBDA s :
        [s EXCEPT !.reqs = @ \o <<Req("SetInputFocus", Root)>>
                             \o DestroyClients(Slab_iter(s.windows))
                             \o DestroyReserved(Slab_iter(s.global_windows)),
                  !.global_windows = Slab_clear(@),
                  !.reserved_space_bottom = 0,
                  !.reserved_space_left = 0,
                  !.reserved_space_right = 0,
                  !.reserved_space_top = 0,
                  !.windows = Slab_clear(@),
                  !.focused_window = None,
                  !.window_lookup = <<>>,
                  !.workspaces = [i \in DOMAIN @ |-> Workspace_clear_windows(@[i])]])

----------------------------------------------------------------------------
(* Wm::run, src/wm.rs: the reactor thread and the event-reading helper     *)
(* thread.  `wm` holds                                                     *)
(*   pc        where the reactor thread is: "run" in the main loop, then   *)
(*             the shutdown steps in turn, "returned" when run has         *)
(*             returned and dropped event_receiver;                        *)
(*   process   "running", "exited" when main has returned, "aborted"       *)
(*             after std::process::abort;                                  *)
(*   wire      the events the X server has queued for the connection;      *)
(*   helper    "wait" in conn.wait_for_event, "send" holding an event;     *)
(*   held      the event the helper thread is about to send;               *)
(*   channel   the events sent and not yet received;                       *)
(*   grabs     the bound actions whose key is grabbed;                     *)
(*   procs     the tracked child processes in the order they were          *)
(*             launched, exited the ones that have ended, killed the ones  *)
(*             `kill` was called on;                                       *)
(*   reaped    history: procs and exited as the last clean-up of child     *)
(*             processes found them, and the list it left (kept);          *)
(*   steps     history: the shutdown steps taken, in order;                *)
(*   served    history: the events dispatched, at_quit those dispatched    *)
(*             when Quit was;                                              *)
(*   cause     history: what called abort.                                 *)
(***************************************************************************)

MaxEvents == 3     \* events that clients and the user cause in one run
MaxProcs == 3      \* child processes launched in one run

\* The `actions` Wm::run is given: actions::ACTIONS.
actions == <<"Quit", "CloseFocusedWindow", "CycleLayout", "Launch", "Launch">>

\* The events of a run: key presses of bound actions, the MapRequest of a
\* client and of a dock, and an EnterNotify.
EventInputs ==
    {[type |-> "KeyPress", action |-> i] : i \in {1, 3, 4}}
    \cup {[type |-> "MapRequest", window |-> 1, properties |-> NoProperties],
          [type |-> "MapRequest", window |-> 2,
           properties |-> DockProperties(<<0, 0, 24, 0>>)],
          [type |-> "EnterNotify", window |-> 1]}

\* A variant of the shutdown path that kills the child processes first.
ShutdownSteps_procs_first == <<"kill_procs", "unbind_actions", "kill_children">>

\* The shutdown path of Wm::run, in the order of its statements.
ShutdownSteps == <<"unbind_actions", "kill_children", "kill_procs">>

\* The DestroyNotify events the X server sends the root window's listener
\* for the DestroyWindow requests of a handler: one for every child of root.
Notifications(reqs) ==
    Bind(SelectSeq(reqs, LAMBDA r : r.req = "DestroyWindow"
                                      /\ r.window \in Frames),
         LAMBDA q : [k \in 1..Len(q) |->
                        [type |-> "DestroyNotify", window |-> q[k].window]])

\* The state when Wm::run has bound the actions and spawned the helper.
InitReactor ==
    /\ Booted(0)
    /\ tiling = <<>>
    /\ workspace = <<>>
    /\ keyboard = <<>>
    /\ wm = [pc |-> "run", process |-> "running", wire |-> <<>>, helper |-> "wait", held |-> <<>>,
             channel |-> <<>>, grabs |-> DOMAIN actions, procs |-> <<>>,
             exited |-> {}, killed |-> {}, next_pid |-> 1, emitted |-> 0,
             reaped |-> [procs |-> <<>>, exited |-> {}, passes |-> FALSE,
                         kept |-> <<>>],
             steps |-> <<>>, served |-> 0, at_quit |-> 0, cause |-> "none"]

Alive == ~fault /\ wm.process = "running"

\* The user or a client causes an event.
XEvent ==
    /\ Alive
    /\ wm.emitted < MaxEvents
    /\ \E ev \in EventInputs :
          wm' = [wm EXCEPT !.wire = Append(@, ev), !.emitted = @ + 1]
    /\ UNCHANGED <<slabVars, screenVars, fault, tiling, workspace, keyboard>>

\* A tracked child process ends by itself.
ChildExits ==
    /\ Alive
    /\ \E p \in {wm.procs[k] : k \in 1..Len(wm.procs)} \ wm.exited :
          wm' = [wm EXCEPT !.exited = @ \cup {p}]
    /\ UNCHANGED <<slabVars, screenVars, fault, tiling, workspace, keyboard>>

\* The helper thread: conn.wait_for_event returns Ok(ev).
HelperRead ==
    /\ Alive
    /\ wm.helper = "wait"
    /\ Len(wm.wire) > 0
    /\ wm' = [wm EXCEPT !.helper = "send", !.held = Head(wm.wire),
                        !.wire = Tail(@)]
    /\ UNCHANGED <<slabVars, screenVars, fault, tiling, workspace, keyboard>>

\* The helper thread: conn.wait_for_event returns Err and the thread aborts
\* the process.
HelperReadFails ==
    /\ Alive
    /\ wm.helper = "wait"
    /\ wm' = [wm EXCEPT !.process = "aborted", !.cause = "wait_for_event"]
    /\ UNCHANGED <<slabVars, screenVars, fault, tiling, workspace, keyboard>>

\* The helper thread: event_transmitter.send(ev), which fails when the
\* receiver has been dropped.
HelperSend ==
    /\ Alive
    /\ wm.helper = "send"
    /\ wm' = IF wm.pc = "returned"
             THEN [wm EXCEPT !.process = "aborted", !.cause = "send"]
             ELSE [wm EXCEPT !.helper = "wait", !.held = <<>>,
                             !.channel = Append(@, wm.held)]
    /\ UNCHANGED <<slabVars, screenVars, fault, tiling, workspace, keyboard>>

\* `for i in 0..len { let i = len - 1 - i; .. procs.remove(i) .. }`: the
\* passes i, i + 1, .. of the loop on the list as the passes before left it.
\* procs[j] is the element of index j - 1.
RECURSIVE ReapFrom(_, _, _, _)
ReapFrom(procs, exited, len, i) ==
    IF i >= len THEN procs
    ELSE LET j == len - 1 - i + 1
         IN  IF procs[j] \in exited
             THEN ReapFrom(SubSeq(procs, 1, j - 1) \o SubSeq(procs, j + 1, Len(procs)),
                           exited, len, i + 1)
             ELSE ReapFrom(procs, exited, len, i + 1)

\* The same loop walking the list from its front; it ends at the first index
\* past the end of the list.
RECURSIVE ReapForward(_, _, _, _)
ReapForward(procs, exited, len, i) ==
    IF i >= len \/ i + 1 > Len(procs) THEN procs
    ELSE IF procs[i + 1] \in exited
         THEN ReapForward(SubSeq(procs, 1, i) \o SubSeq(procs, i + 2, Len(procs)),
                          exited, len, i + 1)
         ELSE ReapForward(procs, exited, len, i + 1)

\* A variant of the clean-up that walks the list from its front.
Reaped_forward(w) ==
    [w EXCEPT !.procs = ReapForward(@, w.exited, Len(@), 0), !.exited = {},
              !.reaped = [procs |-> w.procs, exited |-> w.exited, passes |-> TRUE,
                          kept |-> ReapForward(w.procs, w.exited, Len(w.procs), 0)]]

\* The clean-up of child processes at the end of a pass of the main loop:
\* try_wait tells of every child whether it has exited.
Reaped(w) ==
    [w EXCEPT !.procs = ReapFrom(@, w.exited, Len(@), 0), !.exited = {},
              !.reaped = [procs |-> w.procs, exited |-> w.exited, passes |-> TRUE,
                          kept |-> ReapFrom(w.procs, w.exited, Len(w.procs), 0)]]

\* The handler the main loop runs for an event, on the Screen.
Handled(state, ev, advertises) ==
    Bind(state, LAMBDA s :
        CASE ev.type = "MapRequest" -> Event_MapRequest(s, ev.window, ev.properties)
          [] ev.type = "DestroyNotify" -> Screen_remove_window(s, ev.window)
          [] ev.type = "EnterNotify" -> Screen_enter_client(s, ev.window)
          [] ev.type = "KeyPress" /\ actions[ev.action] = "CycleLayout" ->
                Screen_cycle_layout(s)
          [] ev.type = "KeyPress" /\ actions[ev.action] = "CloseFocusedWindow" ->
                Screen_close_focused_window(s, advertises)
          [] OTHER -> s)

\* One pass of the main loop that receives an event: recv_timeout returns
\* Ok(ev), the event is dispatched and the child processes are reaped.  Quit
\* breaks out of the loop at once; Launch spawns a child, which may fail.
Dispatch ==
    /\ Alive
    /\ wm.pc = "run"
    /\ Len(wm.channel) > 0
    /\ \E ev \in {Head(wm.channel)}, spawned \in BOOLEAN, advertises \in BOOLEAN :
          LET quit == ev.type = "KeyPress" /\ actions[ev.action] = "Quit"
              launch == ev.type = "KeyPress" /\ actions[ev.action] = "Launch"
                        /\ spawned /\ wm.next_pid <= MaxProcs
          IN  /\ ~launch => ~spawned
              /\ (ev.type = "KeyPress" /\ actions[ev.action] = "CloseFocusedWindow")
                     \/ ~advertises
              /\ \E s \in {Handled(Begin(screen, <<>>, FALSE, "asc"), ev, advertises)} :
                    /\ screen' = Finish(s)
                    /\ fault' = s.panic
                    /\ wm' = IF quit
                             THEN [wm EXCEPT !.channel = Tail(@),
                                             !.pc = ShutdownSteps[1],
                                             !.served = @ + 1, !.at_quit = wm.served + 1]
                             ELSE Reaped(
                                  [wm EXCEPT !.channel = Tail(@),
                                             !.served = @ + 1,
                                             !.wire = @ \o Notifications(s.reqs),
                                             !.procs = IF launch THEN Append(@, wm.next_pid)
                                                       ELSE @,
                                             !.next_pid = IF launch THEN @ + 1 ELSE @])
    /\ UNCHANGED <<slabVars, call, build, hash_seed, failures, layout_ops, budget,
                   focus_removed, closing, tiling, workspace, keyboard>>

\* One pass of the main loop in which recv_timeout times out.
Wake ==
    /\ Alive
    /\ wm.pc = "run"
    /\ Len(wm.channel) = 0
    /\ wm' = Reaped(wm)
    /\ UNCHANGED <<slabVars, screenVars, fault, tiling, workspace, keyboard>>

\* The step after a shutdown step; run returns after the last.
After(step) ==
    IF \E k \in 1..(Len(ShutdownSteps) - 1) : ShutdownSteps[k] = step
    THEN ShutdownSteps[(CHOOSE k \in 1..Len(ShutdownSteps) : ShutdownSteps[k] = step) + 1]
    ELSE "returned"

\* keyboard.unbind_actions: an UngrabKey for every bound action.
UnbindActions ==
    /\ Alive
    /\ wm.pc = "unbind_actions"
    /\ wm' = [wm EXCEPT !.grabs = {}, !.steps = Append(@, wm.pc),
                        !.pc = After(wm.pc)]
    /\ UNCHANGED <<slabVars, screenVars, fault, tiling, workspace, keyboard>>

\* screen.kill_children()
KillChildren ==
    /\ Alive
    /\ wm.pc = "kill_children"
    /\ \E s \in {Screen_kill_children(Begin(screen, <<>>, FALSE, "asc"))} :
          /\ screen' = Finish(s)
          /\ wm' = [wm EXCEPT !.wire = @ \o Notifications(s.reqs),
                              !.steps = Append(@, wm.pc), !.pc = After(wm.pc)]
    /\ UNCHANGED <<slabVars, call, build, hash_seed, failures, layout_ops, budget,
                   focus_removed, closing, fault, tiling, workspace, keyboard>>

\* The loop that kills the tracked child processes, and procs.clear().
KillProcs ==
    /\ Alive
    /\ wm.pc = "kill_procs"
    /\ wm' = [wm EXCEPT !.killed = {wm.procs[k] : k \in 1..Len(wm.procs)},
                        !.procs = <<>>, !.exited = {},
                        !.steps = Append(@, wm.pc), !.pc = After(wm.pc)]
    /\ UNCHANGED <<slabVars, screenVars, fault, tiling, workspace, keyboard>>

\* main returns what run returned and the process exits.
Exit ==
    /\ Alive
    /\ wm.pc = "returned"
    /\ wm' = [wm EXCEPT !.process = "exited"]
    /\ UNCHANGED <<slabVars, screenVars, fault, tiling, workspace, keyboard>>

NextReactor ==
    \/ XEvent
    \/ ChildExits
    \/ HelperRead
    \/ HelperReadFails
    \/ HelperSend
    \/ Dispatch
    \/ Wake
    \/ UnbindActions
    \/ KillChildren
    \/ KillProcs
    \/ Exit

SpecReactor == InitReactor /\ [][NextReactor]_vars

\* C21: once Quit has been dispatched the reactor dispatches no further
\* event, and the shutdown steps are taken in the order unbind_actions (every
\* key grab released), kill_children (no client or reserved window left),
\* kill of every tracked child process.
QuitShutsDownInOrder ==
    wm.pc # "run" =>
        /\ wm.served = wm.at_quit
        /\ \E n \in 0..3 :
              wm.steps = SubSeq(<<"unbind_actions", "kill_children", "kill_procs">>, 1, n)
        /\ (Len(wm.steps) >= 1) => wm.grabs = {}
        /\ (Len(wm.steps) >= 2) =>
              /\ LiveClients(screen) = {}
              /\ Slab_len(screen.global_windows) = 0
        /\ (Len(wm.steps) >= 3) => wm.procs = <<>>

QuitShutsDownInOrderWitness ==
    /\ wm.pc = "returned"
    /\ Len(wm.steps) = 3
    /\ wm.killed # {}
    /\ \E k \in 1..Len(screen.reqs) : screen.reqs[k].req = "DestroyWindow"

\* C22: after a Quit the helper thread aborts the process only when its
\* blocking read of the event source has failed, never because the send on
\* the channel failed after the reactor dropped the receiver.
AbortOnlyOnReadFailure ==
    (wm.pc # "run" /\ wm.process = "aborted") => wm.cause = "wait_for_event"

----------------------------------------------------------------------------
\* The Screen model: the client slab, the lookup, the lists of every
\* workspace, the reserved-client slab and the four reservation counters.
ScreenModel(s) ==
    [windows |-> s.windows,
     window_lookup |-> s.window_lookup,
     lists |-> [i \in DOMAIN s.workspaces |->
                   <<s.workspaces[i].windows, s.workspaces[i].floating_windows>>],
     global_windows |-> s.global_windows,
     reserved |-> <<s.reserved_space_top, s.reserved_space_bottom,
                    s.reserved_space_left, s.reserved_space_right>>]

\* C23: when add_window returns an error for a MapRequest, the reactor
\* destroys the offending window and the Screen model is the same as before
\* the event, also when the failure comes after space for a strut was
\* reserved.
FailedMapLeavesModel ==
    [][(budget' # budget /\ call'.op = "add_window" /\ call'.err /\ ~call'.panic) =>
          /\ ScreenModel(screen') = ScreenModel(screen)
          /\ \E k \in 1..Len(screen'.reqs) :
                screen'.reqs[k] = Req("DestroyWindow", call'.window)]_vars

----------------------------------------------------------------------------
(* The layout algorithms, src/tiling.rs.  A layout is a function from the  *)
(* list of handles, the gap and the rectangle to the calls of              *)
(* Client::update it makes, in order.  Every value is a u16: an update     *)
(* records the wrapped values it is called with, and `overflowed` when an  *)
(* operation that computes them, or one of Client::update itself, leaves   *)
(* the u16 range.                                                          *)
(***************************************************************************)

WINDOW_BAR_HEIGHT == 20

\* Client::update: the subtractions that size the frame and the child.
Client_update_overflows(width, height, border) ==
    \/ Overflows16(width - border * 2)
    \/ Overflows16(height - border * 2)
    \/ Overflows16(Wrap16(height - border * 2) - WINDOW_BAR_HEIGHT)

\* One call `conn.windows[handle].update(width, height, x, y, ..)` whose
\* arguments have the given mathematical values; pre tells that an operation
\* before it overflowed.
Update(handle, width, height, x, y, pre, border) ==
    [handle |-> handle, width |-> Wrap16(width), height |-> Wrap16(height),
     x |-> Wrap16(x), y |-> Wrap16(y),
     overflowed |-> \/ pre
                    \/ \E v \in {width, height, x, y} : Overflows16(v)
                    \/ Client_update_overflows(Wrap16(width), Wrap16(height), border)]

\* `(n as f64).sqrt().ceil()`
CeilSqrt(n) == CHOOSE c \in 0..n : c * c >= n /\ (c = 0 \/ (c - 1) * (c - 1) < n)

\* usize::div_ceil
DivCeil(a, b) == (a + b - 1) \div b

\* A variant of the grid that hands the cells out in list order.
retile_grid_in_order(windows, gap, screen_position, border) ==
    LET half_gap == gap \div 2
        len == Len(windows)
        num_wins_horz == CeilSqrt(len)
        num_wins_vert == DivCeil(len, num_wins_horz)
        win_width == screen_position.width \div num_wins_horz
        win_height == screen_position.height \div num_wins_vert
        offset_x == half_gap + screen_position.x
        offset_y == half_gap + screen_position.y
    IN  [k \in 1..len |->
            LET i == k - 1
                col == (i % num_wins_horz) * win_width
                row == (i \div num_wins_horz) * win_height
            IN  Update(windows[i + 1], win_width - gap, win_height - gap,
                       Wrap16(col) + Wrap16(offset_x), Wrap16(row) + Wrap16(offset_y),
                       \E v \in {offset_x, offset_y, col, row} : Overflows16(v),
                       border)]

\* Layout::retile_grid
retile_grid(windows, gap, screen_position, border) ==
    LET half_gap == gap \div 2
        len == Len(windows)
        num_wins_horz == CeilSqrt(len)
        num_wins_vert == DivCeil(len, num_wins_horz)
        win_width == screen_position.width \div num_wins_horz
        win_height == screen_position.height \div num_wins_vert
        offset_x == half_gap + screen_position.x
        offset_y == half_gap + screen_position.y
    IN  [k \in 1..len |->
            LET i == k - 1
                col == (i % num_wins_horz) * win_width
                row == (i \div num_wins_horz) * win_height
            IN  Update(windows[(len - 1 - i) + 1], win_width - gap, win_height - gap,
                       Wrap16(col) + Wrap16(offset_x), Wrap16(row) + Wrap16(offset_y),
                       \E v \in {offset_x, offset_y, col, row} : Overflows16(v),
                       border)]

\* The update of the master, the first statement of both master layouts.
MasterUpdate(windows, gap, screen_position, master_is_left, border) ==
    LET half_gap == gap \div 2
        half_width == screen_position.width \div 2
        len == Len(windows) - 1
        side == IF master_is_left THEN half_gap ELSE half_width + half_gap
    IN  Update(windows[len + 1], half_width - gap, screen_position.height - gap,
               Wrap16(side) + screen_position.x, half_gap + screen_position.y,
               Overflows16(side), border)

\* Layout::retile_with_master
retile_with_master(windows, gap, screen_position, master_is_left, border) ==
    LET half_gap == gap \div 2
        half_width == screen_position.width \div 2
        len == Len(windows) - 1
        width == half_width - gap
        height_gapless == screen_position.height \div len
        height == height_gapless - gap
        side == IF master_is_left THEN half_width + half_gap ELSE half_gap
        x == Wrap16(side) + screen_position.x
    IN  <<MasterUpdate(windows, gap, screen_position, master_is_left, border)>>
        \o [k \in 1..len |->
               LET i == k - 1
                   row == i * height_gapless
                   y1 == Wrap16(row) + half_gap
               IN  Update(windows[(len - 1 - i) + 1], Wrap16(width), Wrap16(height),
                          Wrap16(x), Wrap16(y1) + screen_position.y,
                          \E v \in {width, height, side, x, row, y1} : Overflows16(v),
                          border)]

\* Layout::retile_with_master_grid
retile_with_master_grid(windows, gap, screen_position, master_is_left, border) ==
    LET half_width == screen_position.width \div 2
        len == Len(windows) - 1
        left == half_width + screen_position.x
    IN  <<MasterUpdate(windows, gap, screen_position, master_is_left, border)>>
        \o (IF master_is_left
            THEN [k \in 1..len |->
                     [retile_grid(SubSeq(windows, 1, len), gap,
                                  Position_new(Wrap16(left), screen_position.y,
                                               half_width, screen_position.height),
                                  border)[k]
                      EXCEPT !.overflowed = @ \/ Overflows16(left)]]
            ELSE retile_grid(SubSeq(windows, 1, len), gap,
                             Position_new(screen_position.x, screen_position.y,
                                          half_width, screen_position.height),
                             border))

\* A variant of Monocle that gives the full rectangle to the first handle.
retile_monocle_first(windows, gap, screen_position, border) ==
    LET len == Len(windows) - 1
        x == screen_position.x + gap \div 2
        y == screen_position.y + gap \div 2
    IN  <<Update(windows[1], screen_position.width - gap,
                 screen_position.height - gap, x, y, FALSE, border)>>
        \o [k \in 1..len |-> Update(windows[k + 1], 30, 30, x, y, FALSE, border)]

\* Layout::retile_monocle
retile_monocle(windows, gap, screen_position, border) ==
    LET len == Len(windows) - 1
        x == screen_position.x + gap \div 2
        y == screen_position.y + gap \div 2
    IN  [k \in 1..len |-> Update(windows[k], 30, 30, x, y, FALSE, border)]
        \o <<Update(windows[len + 1], screen_position.width - gap,
                    screen_position.height - gap, x, y, FALSE, border)>>

\* A variant of retile without the case of a single handle.
retile_by_layout(layout, windows, gap, pos, border) ==
    IF Len(windows) < 1 THEN <<>>
    ELSE CASE layout = "Grid" -> retile_grid(windows, gap, pos, border)
           [] layout = "MasterLeft" ->
                 retile_with_master(windows, gap, pos, TRUE, border)
           [] layout = "MasterRight" ->
                 retile_with_master(windows, gap, pos, FALSE, border)
           [] layout = "MasterLeftGrid" ->
                 retile_with_master_grid(windows, gap, pos, TRUE, border)
           [] layout = "MasterRightGrid" ->
                 retile_with_master_grid(windows, gap, pos, FALSE, border)
           [] layout = "Monocle" -> retile_monocle(windows, gap, pos, border)

\* Layout::retile: the updates a layout makes for a list of handles.
retile(layout, windows, gap, pos, border) ==
    IF Len(windows) < 1 THEN <<>>
    ELSE IF Len(windows) = 1
         THEN <<Update(windows[1], pos.width - gap, pos.height - gap,
                       gap \div 2 + pos.x, gap \div 2 + pos.y, FALSE, border)>>
    ELSE CASE layout = "Grid" -> retile_grid(windows, gap, pos, border)
           [] layout = "MasterLeft" ->
                 retile_with_master(windows, gap, pos, TRUE, border)
           [] layout = "MasterRight" ->
                 retile_with_master(windows, gap, pos, FALSE, border)
           [] layout = "MasterLeftGrid" ->
                 retile_with_master_grid(windows, gap, pos, TRUE, border)
           [] layout = "MasterRightGrid" ->
                 retile_with_master_grid(windows, gap, pos, FALSE, border)
           [] layout = "Monocle" -> retile_monocle(windows, gap, pos, border)

\* The updates that take effect: a build with overflow checks panics at the
\* first operation that overflows, a build without them goes on with the
\* wrapped values.
Applied(updates, checks) ==
    IF checks /\ \E k \in 1..Len(updates) : updates[k].overflowed
    THEN SubSeq(updates, 1,
                (CHOOSE k \in 1..Len(updates) :
                    /\ updates[k].overflowed
                    /\ \A j \in 1..(k - 1) : ~updates[j].overflowed) - 1)
    ELSE updates

----------------------------------------------------------------------------
(* A Layout on its own: any call of Layout::retile *)

MaxHandles == 5      \* handles in the list given to a layout

\* The gaps and the rectangles of the calls: the gap of config::GAP_SIZE and
\* the one Wm::new passes, an odd one and a wide one; the rectangle of a
\* 1920x1080 screen with and without a strut, and a small one.
Gaps == {0, 2, 5, 40}
Rects == {Position_new(0, 0, 1920, 1080), Position_new(0, 24, 1920, 1056),
          Position_new(8, 0, 101, 63)}
\* BORDER_SIZE is a constant of config that the sources do not give.
Borders == {0, 2}

InitTiling ==
    /\ Booted(0)
    /\ wm = <<>>
    /\ workspace = <<>>
    /\ keyboard = <<>>
    /\ tiling = [op |-> "none"]

\* A call of Layout::retile.
Retile ==
    /\ ~fault
    /\ \E layout \in {Layouts[k] : k \in 1..Len(Layouts)}, n \in 1..MaxHandles,
          gap \in Gaps, pos \in Rects, border \in Borders, checks \in BOOLEAN :
          \E updates \in {retile(layout, [k \in 1..n |-> k], gap, pos, border)} :
             /\ (\A k \in 1..n : ~updates[k].overflowed) => ~checks
             /\ tiling' = [op |-> "retile", layout |-> layout, n |-> n, gap |-> gap,
                           pos |-> pos, border |-> border, checks |-> checks,
                           updates |-> Applied(updates, checks),
                           panic |-> Len(Applied(updates, checks)) < n]
    /\ UNCHANGED <<slabVars, screenVars, fault, wm, workspace, keyboard>>

NextTiling == Retile

SpecTiling == InitTiling /\ [][NextTiling]_vars

\* C24: the Grid algorithm on n >= 1 handles uses ceil(sqrt(n)) columns and
\* ceil(n / columns) rows and gives the cells, row by row, to the handles in
\* reverse list order: the last handle of the list gets column 0 of row 0.
GridShape ==
    (/\ tiling.op = "retile"
     /\ tiling.layout = "Grid"
     /\ ~tiling.panic
     /\ \A k \in 1..Len(tiling.updates) : ~tiling.updates[k].overflowed) =>
        /\ Len(tiling.updates) = tiling.n
        /\ \E cols \in 1..tiling.n, rows \in 1..tiling.n :
              /\ cols * cols >= tiling.n /\ (cols - 1) * (cols - 1) < tiling.n
              /\ rows * cols >= tiling.n /\ (rows - 1) * cols < tiling.n
              /\ \A h \in 1..tiling.n :
                    \E k \in 1..tiling.n :
                       LET u == tiling.updates[k]
                           cell == tiling.n - h
                       IN  /\ u.handle = h
                           /\ u.x = tiling.pos.x + tiling.gap \div 2
                                    + (cell % cols) * (tiling.pos.width \div cols)
                           /\ u.y = tiling.pos.y + tiling.gap \div 2
                                    + (cell \div cols) * (tiling.pos.height \div rows)
                           /\ u.width = tiling.pos.width \div cols - tiling.gap
                           /\ u.height = tiling.pos.height \div rows - tiling.gap

GridShapeWitness ==
    /\ tiling.op = "retile"
    /\ tiling.layout = "Grid"
    /\ tiling.n = 5
    /\ tiling.gap = 5
    /\ Len(tiling.updates) = 5
    /\ \A k \in 1..5 : ~tiling.updates[k].overflowed
    /\ tiling.updates[1].handle = 5
    /\ tiling.updates[1].x = tiling.pos.x + 2
    /\ tiling.updates[5].y = tiling.pos.y + 2 + tiling.pos.height \div 2

\* The layouts that give one half of the rectangle to a master.
MasterLayouts == {"MasterLeft", "MasterRight", "MasterLeftGrid", "MasterRightGrid"}

\* C25: in the four master layouts on n >= 2 handles, for every gap and
\* rectangle, the last handle is the master, the master and the side region
\* are each floor(width / 2) - gap wide, and every rectangle is computed
\* without u16 underflow, has positive width and height and lies within the
\* rectangle inset by gap / 2.
MasterCoverage ==
    (tiling.op = "retile" /\ tiling.layout \in MasterLayouts /\ tiling.n >= 2) =>
        LET half == tiling.pos.width \div 2
            inset == tiling.gap \div 2
            sides == {k \in 1..Len(tiling.updates) :
                         tiling.updates[k].handle # tiling.n}
            master_x == IF tiling.layout \in {"MasterLeft", "MasterLeftGrid"}
                        THEN tiling.pos.x + inset
                        ELSE tiling.pos.x + half + inset
        IN  /\ ~tiling.panic
            /\ Len(tiling.updates) = tiling.n
            /\ \E k \in 1..Len(tiling.updates) :
                  /\ tiling.updates[k].handle = tiling.n
                  /\ tiling.updates[k].width = half - tiling.gap
                  /\ tiling.updates[k].x = master_x
            /\ \E lo \in {tiling.updates[k].x : k \in sides},
                  hi \in {tiling.updates[k].x + tiling.updates[k].width : k \in sides} :
                  /\ \A k \in sides : lo <= tiling.updates[k].x
                  /\ \A k \in sides :
                        tiling.updates[k].x + tiling.updates[k].width <= hi
                  /\ hi - lo = half - tiling.gap
            /\ \A k \in 1..Len(tiling.updates) :
                  LET u == tiling.updates[k]
                  IN  /\ ~u.overflowed
                      /\ u.width > 0 /\ u.height > 0
                      /\ tiling.pos.x + inset <= u.x
                      /\ u.x + u.width <= tiling.pos.x + tiling.pos.width - inset
                      /\ tiling.pos.y + inset <= u.y
                      /\ u.y + u.height <= tiling.pos.y + tiling.pos.height - inset

\* C26: Monocle on n >= 2 handles gives the last handle of the list, and no
\* other, the rectangle less the gap (width - gap by height - gap), gives
\* every other handle 30 by 30, and places all of them at the rectangle's
\* origin plus (gap / 2, gap / 2).
MonocleShape ==
    (/\ tiling.op = "retile" /\ tiling.layout = "Monocle" /\ tiling.n >= 2
     /\ ~tiling.panic
     /\ \A k \in 1..Len(tiling.updates) : ~tiling.updates[k].overflowed) =>
        /\ Len(tiling.updates) = tiling.n
        /\ \A h \in 1..tiling.n :
              \E k \in 1..tiling.n :
                 LET u == tiling.updates[k]
                 IN  /\ u.handle = h
                     /\ u.x = tiling.pos.x + tiling.gap \div 2
                     /\ u.y = tiling.pos.y + tiling.gap \div 2
                     /\ IF h = tiling.n
                        THEN /\ u.width = tiling.pos.width - tiling.gap
                             /\ u.height = tiling.pos.height - tiling.gap
                        ELSE u.width = 30 /\ u.height = 30

MonocleShapeWitness ==
    /\ tiling.op = "retile" /\ tiling.layout = "Monocle" /\ tiling.n = 3
    /\ tiling.gap = 5
    /\ ~tiling.panic
    /\ Len(tiling.updates) = 3
    /\ tiling.updates[3].handle = 3
    /\ tiling.updates[3].width = tiling.pos.width - 5
    /\ tiling.updates[1].width = 30
    /\ \A k \in 1..3 : ~tiling.updates[k].overflowed

----------------------------------------------------------------------------
(* A Workspace on its own, src/layout.rs: any sequence of calls on one     *)
(* workspace of a fresh Screen.  Beside the fields of Workspace the record *)
(* `workspace` holds                                                       *)
(*   geometry  the width, height, x and y of the ClientWindow of every     *)
(*             handle in the lists, as its last update left them;          *)
(*   visible   the handles whose client is mapped;                         *)
(*   border    config::BORDER_SIZE;                                        *)
(*   checks    TRUE when the build panics on integer overflow;             *)
(*   panic     TRUE once a call has panicked;                              *)
(*   steps     the number of calls left in the run;                        *)
(*   op        history: the last call, arg its argument, before the        *)
(*             workspace it was made on.                                   *)
(***************************************************************************)

MaxTiled == 3            \* the handles of a workspace are 1..MaxTiled
MaxWorkspaceSteps == 4   \* calls in one run of SpecWorkspace

WsHandles == 1..MaxTiled
WsGaps == {0, 5}

\* ClientWindow::new
ClientWindow_new == [width |-> 0, height |-> 0, x |-> 0, y |-> 0]

\* The updates written to the ClientWindows, in order.
RECURSIVE Write(_, _)
Write(geometry, updates) ==
    IF Len(updates) = 0 THEN geometry
    ELSE Write([geometry EXCEPT ![Head(updates).handle] =
                   [width |-> Head(updates).width, height |-> Head(updates).height,
                    x |-> Head(updates).x, y |-> Head(updates).y]],
               Tail(updates))

\* A variant of Workspace::retile that also tiles a workspace that is not
\* showing.
Retiled_hidden(w) ==
    IF Len(w.windows) > 0
    THEN Bind(retile(w.layout, w.windows, w.gap, w.pos, w.border), LAMBDA updates :
             [w EXCEPT !.geometry = Write(@, Applied(updates, w.checks)),
                       !.panic = Len(Applied(updates, w.checks)) < Len(updates)])
    ELSE w

\* Workspace::retile
Retiled(w) ==
    IF Len(w.windows) > 0 /\ w.is_showing
    THEN Bind(retile(w.layout, w.windows, w.gap, w.pos, w.border), LAMBDA updates :
             [w EXCEPT !.geometry = Write(@, Applied(updates, w.checks)),
                       !.panic = Len(Applied(updates, w.checks)) < Len(updates)])
    ELSE w

\* The handles of a list.
Listed(list) == {list[k] : k \in 1..Len(list)}

\* Workspace::show.  The updates after the retile repeat the ones the retile
\* has just made: the workspace is showing, so every tiled window was tiled.
show(w) ==
    Retiled([w EXCEPT !.is_showing = TRUE, !.visible = @ \cup Listed(w.windows)])

\* Workspace::hide
hide(w) ==
    [w EXCEPT !.is_showing = FALSE, !.focused = None,
              !.visible = @ \ (Listed(w.windows) \cup Listed(w.floating_windows))]

\* Workspace::cycle_layout
cycle_layout(w) ==
    Retiled([w EXCEPT !.layout =
        Layouts[((CHOOSE k \in 1..Len(Layouts) : Layouts[k] = w.layout) % Len(Layouts)) + 1]])

\* Workspace::set_layout
set_layout(w, new_layout) ==
    IF w.layout = new_layout THEN w ELSE Retiled([w EXCEPT !.layout = new_layout])

\* Workspace::spawn_window
spawn_window(w, data) ==
    Retiled([w EXCEPT !.visible = @ \cup {data},
                      !.windows = Append(@, data),
                      !.geometry = [h \in DOMAIN @ \cup {data} |->
                                       IF h = data THEN ClientWindow_new ELSE @[h]]])

\* Workspace::find_floating_window: the list that holds the window and its
\* place in it.
find_floating_window(w, window) ==
    IF window \in Listed(w.windows)
    THEN Some(<<CHOOSE i \in 1..Len(w.windows) :
                   /\ w.windows[i] = window
                   /\ \A j \in 1..(i - 1) : w.windows[j] # window, TRUE>>)
    ELSE IF window \in Listed(w.floating_windows)
    THEN Some(<<CHOOSE i \in 1..Len(w.floating_windows) :
                   /\ w.floating_windows[i] = window
                   /\ \A j \in 1..(i - 1) : w.floating_windows[j] # window, FALSE>>)
    ELSE None

\* Vec::remove at a place of a list.
RemoveAt(list, i) == SubSeq(list, 1, i - 1) \o SubSeq(list, i + 1, Len(list))

\* A variant of toggle_floating that leaves the handle in the tiled list.
toggle_floating_copy(w, window) ==
    Bind(find_floating_window(w, window), LAMBDA found :
        IF found = None THEN w
        ELSE IF Unwrap(found)[2]
        THEN Retiled([w EXCEPT !.floating_windows = Append(@, window)])
        ELSE Retiled([w EXCEPT
                 !.floating_windows = RemoveAt(@, Unwrap(found)[1]),
                 !.windows = Append(@, window)]))

\* Workspace::toggle_floating
toggle_floating(w, window) ==
    Bind(find_floating_window(w, window), LAMBDA found :
        IF found = None THEN w
        ELSE IF Unwrap(found)[2]
        THEN Retiled([w EXCEPT
                 !.windows = RemoveAt(@, Unwrap(found)[1]),
                 !.floating_windows = Append(@, window)])
        ELSE Retiled([w EXCEPT
                 !.floating_windows = RemoveAt(@, Unwrap(found)[1]),
                 !.windows = Append(@, window)]))

\* A variant of remove_window that leaves the focus alone.
remove_window_keeps_focus(w, handle) ==
    IF handle \in Listed(w.windows) \cup Listed(w.floating_windows)
    THEN Retiled([w EXCEPT
             !.windows = SelectSeq(@, LAMBDA h : h # handle),
             !.floating_windows = SelectSeq(@, LAMBDA h : h # handle),
             !.geometry = [h \in DOMAIN @ \ {handle} |-> @[h]],
             !.visible = @ \ {handle}])
    ELSE w

\* Workspace::remove_window with the predicate "is this handle"
remove_window(w, handle) ==
    Bind([w EXCEPT !.focused = IF @ = Some(handle) THEN None ELSE @], LAMBDA w1 :
        IF handle \in Listed(w1.windows) \cup Listed(w1.floating_windows)
        THEN Retiled([w1 EXCEPT
                 !.windows = SelectSeq(@, LAMBDA h : h # handle),
                 !.floating_windows = SelectSeq(@, LAMBDA h : h # handle),
                 !.geometry = [h \in DOMAIN @ \ {handle} |-> @[h]],
                 !.visible = @ \ {handle}])
        ELSE w1)

\* Workspace::set_screen_position
set_screen_position(w, pos) == Retiled([w EXCEPT !.pos = pos])

\* Workspace::focus_client as Screen::enter_client calls it, with a handle
\* and a bool for a result: the focus moves to a handle of the workspace and
\* stays where it is for any other.
focus_client(w, client) ==
    IF Workspace_has_client(w, client) THEN [w EXCEPT !.focused = Some(client)] ELSE w

\* Workspace::clear_windows
clear_windows(w) ==
    [w EXCEPT !.windows = <<>>, !.floating_windows = <<>>, !.focused = None,
              !.geometry = <<>>]

\* The workspace Screen::new shows: workspaces[1] of a fresh screen.
InitWorkspace ==
    /\ Booted(0)
    /\ wm = <<>>
    /\ tiling = <<>>
    /\ keyboard = <<>>
    /\ \E size \in InitSizes, gap \in WsGaps, border \in Borders, checks \in BOOLEAN :
          workspace = Screen_new(size[1], size[2], gap).workspaces[1]
                      @@ [geometry |-> <<>>, visible |-> {}, border |-> border,
                          checks |-> checks, panic |-> FALSE,
                          steps |-> MaxWorkspaceSteps,
                          op |-> "new", arg |-> <<>>, before |-> <<>>]

\* A call on the workspace has returned w.
Called(op, arg, w) ==
    /\ ~workspace.panic
    /\ workspace.steps > 0
    /\ workspace' = [w EXCEPT !.steps = @ - 1, !.op = op, !.arg = arg,
                              !.before = [workspace EXCEPT !.before = <<>>]]
    /\ UNCHANGED <<slabVars, screenVars, fault, wm, tiling, keyboard>>

\* A handle is spawned once: it is the index Slab::push has just returned.
NextWorkspace ==
    \/ \E h \in WsHandles \ (Listed(workspace.windows)
                              \cup Listed(workspace.floating_windows)) :
          Called("spawn_window", h, spawn_window(workspace, h))
    \/ \E h \in WsHandles : Called("toggle_floating", h, toggle_floating(workspace, h))
    \/ \E h \in WsHandles : Called("remove_window", h, remove_window(workspace, h))
    \/ \E h \in WsHandles : Called("focus_client", h, focus_client(workspace, h))
    \/ Called("cycle_layout", <<>>, cycle_layout(workspace))
    \/ \E l \in Listed(Layouts) :
          Called("set_layout", l, set_layout(workspace, l))
    \/ \E pos \in Rects : Called("set_screen_position", pos,
                                 set_screen_position(workspace, pos))
    \/ Called("show", <<>>, show(workspace))
    \/ Called("hide", <<>>, hide(workspace))
    \/ Called("clear_windows", <<>>, clear_windows(workspace))

SpecWorkspace == InitWorkspace /\ [][NextWorkspace]_vars

\* C27: when the tiled list of a showing workspace holds one handle, then
\* under every layout the handle's geometry is (x + gap / 2, y + gap / 2,
\* width - gap, height - gap) of the rectangle; on a fresh screen without
\* struts this is (gap / 2, gap / 2, screen width - gap, screen height - gap).
SoleWindowFillsRect ==
    (/\ workspace.op \in {"spawn_window", "toggle_floating", "remove_window",
                          "cycle_layout", "set_layout", "set_screen_position",
                          "show"}
     /\ ~workspace.panic
     /\ workspace.is_showing
     /\ Len(workspace.windows) = 1) =>
        LET g == workspace.geometry[workspace.windows[1]]
        IN  /\ g = [x |-> workspace.pos.x + workspace.gap \div 2,
                    y |-> workspace.pos.y + workspace.gap \div 2,
                    width |-> workspace.pos.width - workspace.gap,
                    height |-> workspace.pos.height - workspace.gap]
            /\ workspace.pos = WorkArea(screen) =>
                  g = [x |-> workspace.gap \div 2, y |-> workspace.gap \div 2,
                       width |-> screen.width - workspace.gap,
                       height |-> screen.height - workspace.gap]

SoleWindowFillsRectWitness ==
    /\ workspace.op = "spawn_window"
    /\ workspace.is_showing
    /\ workspace.layout = "MasterRightGrid"
    /\ workspace.gap = 5
    /\ workspace.pos = WorkArea(screen)
    /\ Len(workspace.windows) = 1
    /\ workspace.geometry[workspace.windows[1]].width = screen.width - 5

RetilingOps == {"spawn_window", "toggle_floating", "remove_window",
                "cycle_layout", "set_layout", "set_screen_position"}

\* C30: a call that retiles a workspace (spawn_window, toggle_floating,
\* remove_window, cycle_layout, set_layout, set_screen_position) leaves the
\* geometry of every client as it was when the workspace is not showing or
\* its tiled list is empty at the retile, and never changes the geometry of a
\* client that is floating at the retile.
RetileFrame ==
    workspace.op \in RetilingOps =>
        LET b == workspace.before
            kept == DOMAIN workspace.geometry \cap DOMAIN b.geometry
        IN  /\ (~workspace.is_showing \/ Len(workspace.windows) = 0) =>
                  /\ \A h \in kept : workspace.geometry[h] = b.geometry[h]
                  /\ \A h \in DOMAIN workspace.geometry \ kept :
                        workspace.geometry[h] = ClientWindow_new
            /\ \A h \in Listed(workspace.floating_windows) \cap kept :
                  workspace.geometry[h] = b.geometry[h]

RetileFrameWitness ==
    /\ workspace.op = "set_screen_position"
    /\ ~workspace.is_showing
    /\ workspace.before.pos # workspace.pos
    /\ Len(workspace.windows) = 1
    /\ workspace.geometry[workspace.windows[1]].width
           = workspace.before.pos.width - workspace.gap

\* C31: after show() the workspace is showing and every client of its tiled
\* and of its floating list is mapped; hide() followed by show() leaves every
\* tiled and every floating client mapped again.
ShowMapsAll ==
    workspace.op = "show" =>
        /\ workspace.is_showing
        /\ Listed(workspace.windows) \cup Listed(workspace.floating_windows)
              \subseteq workspace.visible

----------------------------------------------------------------------------
(* The Keyboard on its own, src/keyboard.rs: key presses and releases on   *)
(* the physical keyboard, of which the window manager is sent some.  The   *)
(* record `keyboard` holds                                                 *)
(*   mods    Keyboard::mods;                                               *)
(*   held    the modifier keys that are down;                              *)
(*   steps   the number of key events left in the run;                     *)
(*   last    the last event translated: its keysym, whether it was a       *)
(*           press, the modifier mask the server put into it (state), the  *)
(*           mask of the translated event (mods) and the bound actions it  *)
(*           fired.                                                        *)
(***************************************************************************)

MaxKeySteps == 4     \* key events in one run of SpecKeyboard

MODS_CTRL == 1
MODS_SHIFT == 2
MODS_ALT == 4
MODS_SUPER == 8

\* `mods | modmask` and `mods & !modmask` for a mask of one bit.
HasBit(mods, bit) == (mods \div bit) % 2 = 1
BitOr(mods, bit) == IF HasBit(mods, bit) THEN mods ELSE mods + bit
BitClear(mods, bit) == IF HasBit(mods, bit) THEN mods - bit ELSE mods

\* The match of translate_event: the bit of a modifier keysym, 0 for others.
ModMaskOf(keysym) ==
    CASE keysym \in {"Control_L", "Control_R"} -> MODS_CTRL
      [] keysym \in {"Alt_L", "Alt_R"} -> MODS_ALT
      [] keysym \in {"Shift_L", "Shift_R"} -> MODS_SHIFT
      [] keysym \in {"Super_L", "Super_R"} -> MODS_SUPER
      [] OTHER -> 0

\* actions::ACTIONS: the key and the modifiers of every action.
ActionKeys == <<[key |-> "q", mods |-> MODS_CTRL + MODS_ALT],
                [key |-> "q", mods |-> MODS_SHIFT + MODS_ALT],
                [key |-> "l", mods |-> MODS_ALT],
                [key |-> "p", mods |-> MODS_ALT],
                [key |-> "Return", mods |-> MODS_ALT]>>

\* The KeyPress arm of Wm::run: the actions whose key and modifiers are
\* those of the event.
BoundActionsFor(key, mods) ==
    {i \in DOMAIN ActionKeys : ActionKeys[i].key = key /\ ActionKeys[i].mods = mods}

\* Keyboard::translate_event: the new Keyboard::mods and the translated event.
translate_event(mods, keysym, press, state) ==
    LET modmask == ModMaskOf(keysym)
        new == IF modmask # 0
               THEN IF press THEN BitOr(mods, modmask) ELSE BitClear(mods, modmask)
               ELSE mods
    IN  [mods |-> new,
         event |-> [key |-> keysym, press |-> press, state |-> state, mods |-> new]]

ModKeys == {"Alt_L", "Alt_R", "Control_L", "Shift_L"}
PlainKeys == {"q", "l"}

RECURSIVE MaskSum(_)
MaskSum(bits) ==
    IF bits = {} THEN 0
    ELSE LET b == CHOOSE b \in bits : TRUE IN b + MaskSum(bits \ {b})

\* The modifier mask of the X server while the given modifier keys are down.
HeldMask(held) == MaskSum({ModMaskOf(k) : k \in held})

InitKeyboard ==
    /\ Booted(0)
    /\ wm = <<>>
    /\ tiling = <<>>
    /\ workspace = <<>>
    /\ keyboard = [mods |-> 0, held |-> {}, steps |-> MaxKeySteps,
                   last |-> [key |-> "none", press |-> FALSE, state |-> 0,
                             mods |-> 0, fired |-> {}, seen |-> FALSE]]

\* A key goes down or up.  The server sends the event to the window manager
\* when the key is grabbed or a window of the window manager has the focus,
\* and to another client otherwise; the event carries the modifiers that
\* were down before it.
Key ==
    \E key \in ModKeys \cup PlainKeys, press \in BOOLEAN, delivered \in BOOLEAN :
       /\ keyboard.steps > 0
       /\ key \in ModKeys => (press <=> key \notin keyboard.held)
       /\ key \in PlainKeys => delivered
       /\ LET held == IF key \in ModKeys
                      THEN IF press THEN keyboard.held \cup {key}
                           ELSE keyboard.held \ {key}
                      ELSE keyboard.held
              t == translate_event(keyboard.mods, key, press, HeldMask(keyboard.held))
          IN  keyboard' =
                 IF delivered
                 THEN [mods |-> t.mods, held |-> held, steps |-> keyboard.steps - 1,
                       last |-> t.event @@
                                [fired |-> IF press
                                           THEN BoundActionsFor(key, t.event.mods)
                                           ELSE {},
                                 seen |-> TRUE]]
                 ELSE [keyboard EXCEPT !.held = held, !.steps = @ - 1,
                                       !.last.seen = FALSE]
       /\ UNCHANGED <<slabVars, screenVars, fault, wm, tiling, workspace>>

NextKeyboard == Key

SpecKeyboard == InitKeyboard /\ [][NextKeyboard]_vars

\* C32: the modifier mask of a translated key event is the one the server
\* event carries, whatever key events came before it, so a bound action
\* fires exactly when its key and the modifiers held are those of the event.
MaskFromEvent ==
    (keyboard.last.seen /\ keyboard.last.key \in PlainKeys) =>
        /\ keyboard.last.mods = keyboard.last.state
        /\ keyboard.last.press =>
              keyboard.last.fired
                  = BoundActionsFor(keyboard.last.key, HeldMask(keyboard.held))

\* C33: the clean-up of child processes at the end of a pass of the main
\* loop, after an event or after a timeout, leaves exactly the tracked
\* children that have not exited, in their order: no running child is
\* dropped and no exited child is kept, wherever the exited ones are.
ReapKeepsRunning ==
    wm # <<>> /\ wm.reaped.passes =>
        wm.reaped.kept
            = SelectSeq(wm.reaped.procs, LAMBDA p : p \notin wm.reaped.exited)

ReapKeepsRunningWitness ==
    /\ wm # <<>>
    /\ wm.reaped.passes
    /\ Len(wm.reaped.procs) = 3
    /\ wm.reaped.exited = {wm.reaped.procs[1], wm.reaped.procs[2]}
    /\ wm.procs = <<wm.reaped.procs[3]>>

\* C34: after kill_children the client slab, the reserved-client slab and
\* window_lookup are empty, the four reservation counters are 0,
\* focused_window is None and every workspace has empty lists and no focus;
\* a push into either slab then succeeds and returns index 0.
KillChildrenEmpties ==
    (wm # <<>> /\ Len(wm.steps) >= 2 /\ wm.steps[2] = "kill_children") =>
        /\ Slab_len(screen.windows) = 0
        /\ Slab_max_len(screen.windows) = 0
        /\ Slab_len(screen.global_windows) = 0
        /\ Slab_max_len(screen.global_windows) = 0
        /\ DOMAIN screen.window_lookup = {}
        /\ screen.reserved_space_left = 0
        /\ screen.reserved_space_right = 0
        /\ screen.reserved_space_top = 0
        /\ screen.reserved_space_bottom = 0
        /\ screen.focused_window = None
        /\ \A i \in DOMAIN screen.workspaces :
              /\ screen.workspaces[i].windows = <<>>
              /\ screen.workspaces[i].floating_windows = <<>>
              /\ screen.workspaces[i].focused = None
        /\ \A slot \in {screen.windows, screen.global_windows} :
              /\ Slab_push(slot, "client").idx = 0
              /\ ~Slab_push(slot, "client").panic

KillChildrenEmptiesWitness ==
    /\ wm # <<>>
    /\ Len(wm.steps) >= 2
    /\ wm.steps[2] = "kill_children"
    /\ \E k \in 1..Len(screen.reqs) : screen.reqs[k] = Req("DestroyWindow", 1)
    /\ \E k \in 1..Len(screen.reqs) : screen.reqs[k] = Req("DestroyWindow", 2)
    /\ screen.windows.last_free > 0
    /\ screen.global_windows.last_free > 0

\* C35: remove_window for a window that is neither a key of window_lookup
\* nor the window of a reserved client does not fault and leaves the slab,
\* the lookup, the lists of the workspaces, the focus, the reserved clients
\* and the reservation counters as they were.
UnknownWindowIgnored ==
    [][(/\ budget' # budget
        /\ call'.op = "remove_window"
        /\ call'.window \notin DOMAIN screen.window_lookup
        /\ \A k \in 1..Len(screen.global_windows.entries) :
              IsSome(screen.global_windows.entries[k]) =>
                  Unwrap(screen.global_windows.entries[k]).window # call'.window) =>
          /\ ~call'.panic
          /\ ~fault'
          /\ ScreenModel(screen') = ScreenModel(screen)
          /\ screen'.focused_window = screen.focused_window
          /\ \A i \in DOMAIN screen.workspaces :
                screen'.workspaces[i].focused = screen.workspaces[i].focused]_vars

UnknownWindowIgnoredWitness ==
    /\ call.op = "remove_window"
    /\ ~call.panic
    /\ call.removed = {}
    /\ call.window = Frame(1)
    /\ call.window \notin DOMAIN screen.window_lookup
    /\ Slab_max_len(screen.windows) > 0
    /\ LiveClients(screen) = {}

\* C36: every atom field used to read or write a property is interned from
\* the EWMH name the field stands for, so that the current desktop is
\* written to the root property _NET_CURRENT_DESKTOP, the number of desktops
\* to _NET_NUMBER_OF_DESKTOPS, and so on, and the strut probe reads
\* _NET_WM_STRUT_PARTIAL.
AtomsNamedAfterFields ==
    /\ Atoms.net_current_desktop = "_NET_CURRENT_DESKTOP"
    /\ Atoms.net_number_of_desktops = "_NET_NUMBER_OF_DESKTOPS"
    /\ Atoms.net_desktop_names = "_NET_DESKTOP_NAMES"
    /\ Atoms.net_desktop_viewport = "_NET_DESKTOP_VIEWPORT"
    /\ Atoms.net_wm_desktop = "_NET_WM_DESKTOP"
    /\ Atoms.net_client_list_stacking = "_NET_CLIENT_LIST_STACKING"
    /\ Atoms.net_showing_desktop = "_NET_SHOWING_DESKTOP"
    /\ Atoms.net_wm_strut_partial = "_NET_WM_STRUT_PARTIAL"
    /\ <<Root, "_NET_CURRENT_DESKTOP">> \in DOMAIN screen.props =>
          screen.props[<<Root, "_NET_CURRENT_DESKTOP">>] = <<screen.current_workspace>>

\* C37: a MapRequest for a window that is already managed does not create a
\* second client: each child window belongs to at most one live client, each
\* frame has one child, and each live client has exactly two entries in
\* window_lookup.
OneClientPerWindow ==
    /\ \A a, b \in LiveClients(screen) :
          (a.window = b.window \/ a.frame = b.frame) => a = b
    /\ \A c \in LiveClients(screen) :
          Cardinality({k \in DOMAIN screen.window_lookup :
                          screen.window_lookup[k] = c.idx}) = 2

\* The handles of the lists of a workspace, tiled ones first.
ListedIn(s, i) == Workspace_windows(s.workspaces[i])

\* C38: every handle in a list of a workspace and every value of
\* window_lookup refers to an occupied slot of the client slab, and the
\* handle of each live client is in exactly one workspace exactly once, so
\* that update_atoms and retile never index a vacant slot.
HandlesAreLive ==
    ~fault =>
    /\ \A i \in DOMAIN screen.workspaces :
          \A k \in 1..Len(ListedIn(screen, i)) :
              ~ClientVacant(screen, ListedIn(screen, i)[k])
    /\ \A w \in DOMAIN screen.window_lookup :
          ~ClientVacant(screen, screen.window_lookup[w])
    /\ \A c \in LiveClients(screen) :
          Cardinality({<<i, k>> \in (DOMAIN screen.workspaces) \X (1..(MaxWindows + MaxFrames)) :
                          /\ k <= Len(ListedIn(screen, i))
                          /\ ListedIn(screen, i)[k] = c.idx}) = 1
    /\ \A i \in DOMAIN screen.workspaces :
          /\ ~WindowsOf(screen, ListedIn(screen, i)).panic
          /\ ~Layout_retile(screen, screen.workspaces[i].windows).panic

HandlesAreLiveWitness ==
    /\ ~fault
    /\ call.op = "add_window"
    /\ screen.next_id = 3
    /\ LiveClients(screen) = {[idx |-> 0, window |-> 1, frame |-> Frame(2)]}
    /\ screen.workspaces[screen.current_workspace].windows = <<0>>

\* C39: Screen's focused_window and the focused handle of the current
\* workspace agree, both unset or both the same handle, and the handle is a
\* live client of the current workspace; also after close_focused_window on
\* a client that defers its destruction, after remove_window of the focused
\* client and after switch_workspace.
FocusAgrees ==
    (~fault /\ screen.current_workspace \in DOMAIN screen.workspaces) =>
        /\ screen.focused_window
              = screen.workspaces[screen.current_workspace].focused
        /\ screen.focused_window # None =>
              /\ ~ClientVacant(screen, Unwrap(screen.focused_window))
              /\ Workspace_has_client(screen.workspaces[screen.current_workspace],
                                      Unwrap(screen.focused_window))

\* C40: the workspace that is showing, if any, is the one current_workspace
\* designates; a switch_workspace whose property publication fails returns
\* the error with the model unchanged, so that current_workspace still
\* designates the workspace that is showing.
ShowingIsCurrent ==
    ~fault =>
        \A i \in DOMAIN screen.workspaces :
            screen.workspaces[i].is_showing => i = screen.current_workspace

====
